---- MODULE Spec2Model ----
(***************************************************************************)
(* State-machine model of the in-memory session layer of the repository:   *)
(*   - RateLimiter          (src/rate_limiter.py)                          *)
(*   - ConversationManager  (src/conversation_manager.py)                  *)
(*                                                                         *)
(* Time.  time.time() returns a float number of seconds.  The model keeps  *)
(* the clock `now` as an integer number of ticks, TicksPerSec ticks to the *)
(* second, so that sub-second instants exist and int(...) truncation is a  *)
(* real conversion.  window_seconds is kept in seconds, as configured.     *)
(*                                                                         *)
(* Each method holds the instance's asyncio.Lock for its whole body, so    *)
(* each method is one atomic action.  The last part of the model takes     *)
(* the lock apart: tasks run the ConversationManager coroutines statement  *)
(* by statement, and the lock is what keeps their bodies from overlapping. *)
(***************************************************************************)
EXTENDS Integers, Sequences, FiniteSets, TLC

VARIABLES
    now,              \* time.time(), in ticks
    max_requests,     \* RateLimiter.max_requests
    window_seconds,   \* RateLimiter.window_seconds
    user_requests,    \* RateLimiter.user_requests: defaultdict(deque)
    result,           \* what the method call just made returned (or raised)
    admitted,         \* history: per user, admitted attempts within the last window
    calls_since_reset, \* history: per user, is_rate_limited calls since reset_user
    max_history,      \* ConversationManager.max_history
    context_window,   \* ConversationManager.context_window
    conversations,    \* ConversationManager.conversations: defaultdict(list)
    last_activity,    \* ConversationManager.last_activity: defaultdict(float)
    n_added,          \* history: per channel, add_message calls since it was empty
    lock,             \* ConversationManager._lock: Free, or the task holding it
    tasks,            \* per task: the coroutine it runs, its position and its locals
    serial,           \* history: the store had each call run whole when it took the lock
    active_terminals, \* clean_enhanced_bot: bot.active_terminals, session id -> CleanTerminal
    handlers,         \* clean_enhanced_bot: per task, the slash command handler it runs
    workflow_templates, \* AdvancedAgentWorkflows.workflow_templates: type -> steps
    active_workflows, \* AdvancedAgentWorkflows.active_workflows: id -> workflow
    executions,       \* per workflow id: the position of its _execute_workflow task
    sorting,          \* a call of _build_execution_order: steps, order, remaining
    disk,             \* SecureFileManager: per user, the files of its directory and their sizes
    user_quotas,      \* SecureFileManager.user_quotas: user_id -> bytes used
    uploads,          \* per task: the upload_file call it runs, its position and its locals
    accepted,         \* history: per user, the usage at the start and the bytes accepted since
    bot_rate_limit,   \* OllamaDiscordBot.rate_limit (and EnhancedAgentDiscordBot.rate_limit)
    bot_max_history,  \* OllamaDiscordBot.max_history
    bot_conversations, \* OllamaDiscordBot.conversations: channel id -> list of turns
    bot_user_requests, \* OllamaDiscordBot.user_requests: user id -> list of times
    enhanced_user_requests, \* EnhancedAgentDiscordBot.user_requests
    asks,             \* per task: the ask handler it runs, its position and its locals
    asked             \* history: the questions asked, the system messages sent per channel

rlVars == <<max_requests, window_seconds, user_requests, admitted, calls_since_reset>>
cmVars == <<max_history, context_window, conversations, last_activity, n_added>>
taskVars == <<lock, tasks, serial>>
coreVars == <<now, result, rlVars, cmVars, taskVars>>
termVars == <<active_terminals, handlers>>
wfVars == <<workflow_templates, active_workflows, executions, sorting>>
fmVars == <<disk, user_quotas, uploads, accepted>>
botVars == <<bot_rate_limit, bot_max_history, bot_conversations, bot_user_requests,
             enhanced_user_requests, asks, asked>>
extVars == <<termVars, wfVars, fmVars, botVars>>
\* the components other than the terminals, the workflows, the file manager,
\* the bots
exceptTerm == <<wfVars, fmVars, botVars>>
exceptWf == <<termVars, fmVars, botVars>>
exceptFm == <<termVars, wfVars, botVars>>
exceptBot == <<termVars, wfVars, fmVars>>
vars == <<coreVars, extVars>>

---------------------------------------------------------------------------
(* Bounds of the model *)

TicksPerSec == 2
MaxClock == 4
MaxReq == 2
MaxWin == 1

Users == {1, 2}
Channels == {1, 2}
\* the tasks that run ConversationManager coroutines concurrently
Tasks == {1, 2}

\* the defaults of the constructors
DefaultMaxRequests == 10
DefaultWindowSeconds == 60
DefaultMaxHistory == 20
DefaultContextWindow == 4096

\* no call made since the clock moved, or the call returned None
NoResult == [op |-> "none"]

\* Optional values: << >> is None, <<n>> is the value n
None == << >>
Some(n) == <<n>>

---------------------------------------------------------------------------
(* Helpers *)

Max(a, b) == IF a >= b THEN a ELSE b

\* window_seconds as a number of ticks
WindowTicks == window_seconds * TicksPerSec

\* max(0, int(x)) for a duration of d ticks: int() truncates toward zero
Seconds0(d) == IF d <= 0 THEN 0 ELSE d \div TicksPerSec

\* self.user_requests[user_id] on a defaultdict(deque)
Queue(u) == IF u \in DOMAIN user_requests THEN user_requests[u] ELSE << >>

\* while user_queue and user_queue[0] < current_time - self.window_seconds:
\*     user_queue.popleft()
\* (variant: <= in place of <)
IsExpiredInclusive(ts, t) == ts <= t - WindowTicks
IsExpired(ts, t) == ts < t - WindowTicks

RECURSIVE Prune(_, _)
Prune(q, t) ==
    IF q # << >> /\ IsExpired(Head(q), t) THEN Prune(Tail(q), t) ELSE q

\* if len(user_queue) >= self.max_requests
\* (variant: > in place of >=)
AtLimitOffByOne(q) == Len(q) > max_requests
AtLimit(q) == Len(q) >= max_requests

\* the dict with key u bound to q (the key is created if missing)
Bind(d, u, q) == [k \in (DOMAIN d) \cup {u} |-> IF k = u THEN q ELSE d[k]]

\* the dict without the keys in ks
Without(d, ks) == [k \in (DOMAIN d) \ ks |-> d[k]]

---------------------------------------------------------------------------
(* Construction *)

\* a task that runs no coroutine
IdleTask == [pc |-> "idle"]

\* clean_enhanced_bot.CleanBot.__init__: no terminal session, no handler running
TermConstructed ==
    /\ active_terminals = << >>
    /\ handlers = [t \in Tasks |-> IdleTask]

\* a step of a workflow template; its 'name' key is optional
Step(agent, task, depends_on) ==
    [name |-> None, agent |-> agent, task |-> task, depends_on |-> depends_on]
NamedStep(name, depends_on) ==
    [name |-> Some(name), agent |-> "agent", task |-> name, depends_on |-> depends_on]

\* AdvancedAgentWorkflows.workflow_templates, type -> template['steps']
WorkflowTemplates ==
    "security_analysis" :>
        << Step("security-auditor", "vulnerability_scan", << >>),
           Step("threat-analyst", "threat_modeling", <<"vulnerability_scan">>),
           Step("risk-manager", "risk_assessment",
                <<"vulnerability_scan", "threat_modeling">>) >>
    @@ "malware_analysis" :>
        << Step("malware-analyst", "static_analysis", << >>),
           Step("reverse-engineer", "dynamic_analysis", <<"static_analysis">>),
           Step("forensics-expert", "ioc_extraction",
                <<"static_analysis", "dynamic_analysis">>) >>
    @@ "research_pipeline" :>
        << Step("research-assistant", "data_collection", << >>),
           Step("data-scientist", "data_preprocessing", <<"data_collection">>),
           Step("statistician", "statistical_analysis", <<"data_preprocessing">>) >>

NotSorting == [pc |-> "none"]

WfConstructed ==
    /\ workflow_templates = WorkflowTemplates
    /\ active_workflows = << >>
    /\ executions = << >>
    /\ sorting = NotSorting

FileUsers == {1}

\* SecureFileManager() over the directories as they are on the disk
FmConstructed(files) ==
    /\ disk = files
    /\ user_quotas = << >>
    /\ uploads = [t \in Tasks |-> IdleTask]
    /\ accepted = [u \in FileUsers |-> [before |-> 0, bytes |-> 0, count |-> 0]]

\* OllamaDiscordBot.__init__: rate_limit = 5, max_history = 10
BotRateLimit == 5
BotMaxHistory == 10

\* the bots with their attributes rate_limit and max_history set as given
BotConfigured(rate_limit, max_history_) ==
    /\ bot_rate_limit = rate_limit
    /\ bot_max_history = max_history_
    /\ bot_conversations = << >>
    /\ bot_user_requests = << >>
    /\ enhanced_user_requests = << >>
    /\ asks = [t \in Tasks |-> IdleTask]
    /\ asked = [questions |-> 0, systems |-> << >>]

BotConstructed == BotConfigured(BotRateLimit, BotMaxHistory)

\* the other components of the repository, as constructed
ExtConstructed ==
    /\ TermConstructed
    /\ WfConstructed
    /\ FmConstructed([u \in FileUsers |-> << >>])
    /\ BotConstructed

\* asyncio.Lock(): not held
Free == 0
\* ConversationManager.__init__, with the configuration given
CMConstructed(mh, cw) ==
    /\ max_history = mh
    /\ context_window = cw
    /\ conversations = << >>
    /\ last_activity = << >>
    /\ n_added = [c \in Channels |-> 0]
    /\ lock = Free
    /\ tasks = [t \in Tasks |-> IdleTask]
    /\ serial = [conversations |-> << >>, last_activity |-> << >>]

\* RateLimiter.__init__, with the configuration given
RLConstructed(mr, ws) ==
    /\ max_requests = mr
    /\ window_seconds = ws
    /\ user_requests = << >>
    /\ admitted = [u \in Users |-> << >>]
    /\ calls_since_reset = [u \in Users |-> -1]

---------------------------------------------------------------------------
(* RateLimiter *)

\* The return value of is_rate_limited on a deque q at time t, and the deque it
\* leaves.  With the deque empty at the limit check (max_requests <= 0) the read
\* of user_queue[0] raises IndexError.
IsRateLimitedOutcome(q, t) ==
    LET pruned == Prune(q, t) IN
    IF AtLimit(pruned)
    THEN IF pruned = << >>
         THEN [raised |-> TRUE, is_limited |-> FALSE, retry |-> 0, queue |-> pruned]
         ELSE [raised |-> FALSE, is_limited |-> TRUE,
               retry |-> Seconds0(Head(pruned) + WindowTicks - t), queue |-> pruned]
    ELSE [raised |-> FALSE, is_limited |-> FALSE, retry |-> 0,
          queue |-> Append(pruned, t)]

\* the history variable: attempts admitted at an instant within [t - window, t]
InWindow(log, t) == SelectSeq(log, LAMBDA ts : ts >= t - WindowTicks /\ ts <= t)

IsRateLimited(u) ==
    LET out == IsRateLimitedOutcome(Queue(u), now) IN
    /\ user_requests' = Bind(user_requests, u, out.queue)
    /\ result' = [op |-> "is_rate_limited", user |-> u,
                  raised |-> out.raised, is_limited |-> out.is_limited,
                  retry |-> out.retry]
    /\ admitted' = [admitted EXCEPT ![u] =
                       IF out.raised \/ out.is_limited THEN @ ELSE Append(@, now)]
    /\ calls_since_reset' = [calls_since_reset EXCEPT ![u] =
                                IF @ >= 0 /\ @ + 1 < max_requests THEN @ + 1 ELSE -1]
    /\ UNCHANGED <<now, max_requests, window_seconds, cmVars, taskVars, extVars>>

\* the deque get_user_stats leaves (variant: one that also records the call)
GetUserStatsQueueRecording(q, t) == Append(Prune(q, t), t)
GetUserStatsQueue(q, t) == Prune(q, t)

GetUserStats(u) ==
    LET q == GetUserStatsQueue(Queue(u), now) IN
    /\ user_requests' = Bind(user_requests, u, q)
    /\ result' = [op |-> "get_user_stats", user |-> u,
                  used |-> Len(q),
                  remaining |-> Max(0, max_requests - Len(q)),
                  reset_in |-> IF q # << >>
                               THEN Seconds0(Head(q) + WindowTicks - now)
                               ELSE 0]
    /\ UNCHANGED <<now, max_requests, window_seconds, admitted, calls_since_reset, cmVars, taskVars, extVars>>

\* self.user_requests[user_id].clear() (variant: one that clears every user)
ResetUserAll(d, u) == [k \in DOMAIN d |-> << >>]
ResetUserDict(d, u) == IF u \in DOMAIN d THEN [d EXCEPT ![u] = << >>] ELSE d

ResetUser(u) ==
    /\ user_requests' = ResetUserDict(user_requests, u)
    /\ result' = [op |-> "reset_user", user |-> u]
    /\ admitted' = [admitted EXCEPT ![u] = << >>]
    /\ calls_since_reset' = [calls_since_reset EXCEPT ![u] =
                                IF max_requests >= 1 THEN 0 ELSE -1]
    /\ UNCHANGED <<now, max_requests, window_seconds, cmVars, taskVars, extVars>>

CleanupOldEntries ==
    LET pruned == [k \in DOMAIN user_requests |-> Prune(user_requests[k], now)]
        users_to_remove == {k \in DOMAIN pruned : pruned[k] = << >>}
    IN
    /\ user_requests' = Without(pruned, users_to_remove)
    /\ result' = [op |-> "cleanup_old_entries"]
    /\ UNCHANGED <<now, max_requests, window_seconds, admitted, calls_since_reset, cmVars, taskVars, extVars>>

\* time passes: the clock is non-decreasing
Advance ==
    /\ now < MaxClock
    /\ now' = now + 1
    /\ admitted' = [u \in Users |-> InWindow(admitted[u], now')]
    /\ result' = NoResult
    /\ UNCHANGED <<max_requests, window_seconds, user_requests, calls_since_reset, cmVars, taskVars, extVars>>

RLInit ==
    /\ now = 0
    /\ result = NoResult
    /\ \E mr \in 0..MaxReq, ws \in 0..MaxWin : RLConstructed(mr, ws)
    /\ CMConstructed(DefaultMaxHistory, DefaultContextWindow)
    /\ ExtConstructed

RLNext ==
    \/ \E u \in Users : IsRateLimited(u)
    \/ \E u \in Users : GetUserStats(u)
    \/ \E u \in Users : ResetUser(u)
    \/ CleanupOldEntries
    \/ Advance

SpecRL == RLInit /\ [][RLNext]_vars

---------------------------------------------------------------------------
(* ConversationManager *)

\* max_history ranges over 1..MaxHist; a channel takes at most MaxAdds
\* add_message calls between two clears
MaxHist == 2
MaxAdds == 3

\* the (role, content) pairs add_message is called with
Messages == {<<"user", "hi">>, <<"assistant", "abcdefgh">>}

\* the truth value Python gives an Optional[int]: None and 0 are false
Truthy(opt) == opt # None /\ opt[1] # 0

\* seq[-n:]
\* (variant: one element short)
PySuffixDropsOne(seq, n) == SubSeq(seq, Len(seq) - n + 2, Len(seq))
PySuffix(seq, n) ==
    IF n > 0 THEN SubSeq(seq, Max(1, Len(seq) - n + 1), Len(seq))
    ELSE SubSeq(seq, 1 - n, Len(seq))

\* self.conversations[channel_id] on a defaultdict(list)
Conversation(c) == IF c \in DOMAIN conversations THEN conversations[c] ELSE << >>

\* the message dict add_message builds; seq is a history field: the number of
\* the add_message call on this channel that inserted the turn
Turn(role, content, t, k) ==
    [role |-> role, content |-> content, timestamp |-> t, seq |-> k]

\* if len(...) > self.max_history: ... = ...[-self.max_history:]
Trim(conv) == IF Len(conv) > max_history THEN PySuffix(conv, max_history) ELSE conv

AddMessage(c, role, content) ==
    /\ n_added[c] < MaxAdds
    /\ LET k == IF n_added[c] >= 0 THEN n_added[c] + 1 ELSE 0
           message == Turn(role, content, now, k)
       IN /\ conversations' = Bind(conversations, c, Trim(Append(Conversation(c), message)))
          /\ n_added' = [n_added EXCEPT ![c] = IF @ >= 0 THEN @ + 1 ELSE @]
    /\ last_activity' = Bind(last_activity, c, now)
    /\ result' = NoResult
    /\ UNCHANGED <<now, max_history, context_window, rlVars, taskVars, extVars>>

GetConversationHistory(c, max_messages) ==
    LET history == Conversation(c) IN
    /\ conversations' = Bind(conversations, c, history)
    /\ result' = [op |-> "get_conversation_history", channel |-> c,
                  max_messages |-> max_messages,
                  value |-> IF Truthy(max_messages)
                            THEN PySuffix(history, max_messages[1])
                            ELSE history]
    /\ UNCHANGED <<now, max_history, context_window, last_activity, n_added, rlVars, taskVars, extVars>>

\* (variant: clears the whole map)
ClearConversationWholeMap(c) ==
    /\ conversations' = << >>
    /\ n_added' = [n_added EXCEPT ![c] = 0]
    /\ result' = NoResult
    /\ UNCHANGED <<now, max_history, context_window, last_activity, rlVars, taskVars, extVars>>

ClearConversation(c) ==
    /\ conversations' = IF c \in DOMAIN conversations
                        THEN [conversations EXCEPT ![c] = << >>]
                        ELSE conversations
    /\ n_added' = [n_added EXCEPT ![c] = 0]
    /\ result' = NoResult
    /\ UNCHANGED <<now, max_history, context_window, last_activity, rlVars, taskVars, extVars>>

\* Rough token estimation (4 chars = 1 token)
\* (variant: rounded up)
MessageTokensCeil(message) == (Len(message.content) + 3) \div 4
MessageTokens(message) == Len(message.content) \div 4

\* for message in reversed(history): ... , from the i-th turn downwards, with
\* the context built and the tokens counted so far
\* (variant: stops at the budget even with nothing collected)
RECURSIVE ContextFromNoProgress(_, _, _, _, _)
ContextFromNoProgress(history, i, context, current_tokens, budget) ==
    IF i = 0 THEN context
    ELSE LET message == history[i]
             message_tokens == MessageTokens(message)
         IN IF current_tokens + message_tokens > budget
            THEN context
            ELSE ContextFromNoProgress(history, i - 1,
                             <<[role |-> message.role, content |-> message.content]>>
                                 \o context,
                             current_tokens + message_tokens, budget)

RECURSIVE ContextFrom(_, _, _, _, _)
ContextFrom(history, i, context, current_tokens, budget) ==
    IF i = 0 THEN context
    ELSE LET message == history[i]
             message_tokens == MessageTokens(message)
         IN IF current_tokens + message_tokens > budget /\ context # << >>
            THEN context
            ELSE ContextFrom(history, i - 1,
                             <<[role |-> message.role, content |-> message.content]>>
                                 \o context,
                             current_tokens + message_tokens, budget)

GetContextForModel(c, max_tokens) ==
    LET budget == IF Truthy(max_tokens) THEN max_tokens[1] ELSE context_window
        history == Conversation(c)
    IN
    /\ conversations' = Bind(conversations, c, history)
    /\ result' = [op |-> "get_context_for_model", channel |-> c,
                  max_tokens |-> max_tokens,
                  value |-> ContextFrom(history, Len(history), << >>, 0, budget)]
    /\ UNCHANGED <<now, max_history, context_window, last_activity, n_added, rlVars, taskVars, extVars>>

\* the seconds of an hour, in ticks
HourTicks == 3600 * TicksPerSec

RECURSIVE SumLen(_, _)
SumLen(d, ks) ==
    IF ks = {} THEN 0
    ELSE LET k == CHOOSE x \in ks : TRUE IN Len(d[k]) + SumLen(d, ks \ {k})

GetStats ==
    /\ result' = [op |-> "get_stats",
                  total_conversations |-> Cardinality(DOMAIN conversations),
                  total_messages |-> SumLen(conversations, DOMAIN conversations),
                  active_conversations |->
                      Cardinality({c \in DOMAIN last_activity :
                                      now - last_activity[c] < HourTicks})]
    /\ UNCHANGED <<now, rlVars, cmVars, taskVars, extVars>>

\* cleanup_old_conversations returns None; the number of channels removed is
\* what it logs ("Cleaned up n old conversations", when n > 0)
Swept(channels_to_remove) ==
    [op |-> "cleanup_old_conversations", value |-> None,
     logged |-> Cardinality(channels_to_remove)]

\* (variant: the age test includes the boundary)
CleanupOldConversationsInclusive(max_age_hours) ==
    LET max_age == max_age_hours * HourTicks
        channels_to_remove == {c \in DOMAIN last_activity :
                                  now - last_activity[c] >= max_age}
    IN
    /\ conversations' = Without(conversations, channels_to_remove)
    /\ last_activity' = Without(last_activity, channels_to_remove)
    /\ n_added' = [c \in Channels |-> IF c \in channels_to_remove THEN 0 ELSE n_added[c]]
    /\ result' = Swept(channels_to_remove)
    /\ UNCHANGED <<now, max_history, context_window, rlVars, taskVars, extVars>>

\* (variant: the turns go, the last_activity entries stay)
CleanupOldConversationsKeepsActivity(max_age_hours) ==
    LET max_age == max_age_hours * HourTicks
        channels_to_remove == {c \in DOMAIN last_activity :
                                  now - last_activity[c] > max_age}
    IN
    /\ conversations' = Without(conversations, channels_to_remove)
    /\ n_added' = [c \in Channels |-> IF c \in channels_to_remove THEN 0 ELSE n_added[c]]
    /\ result' = Swept(channels_to_remove)
    /\ UNCHANGED <<now, max_history, context_window, last_activity, rlVars, taskVars, extVars>>

CleanupOldConversations(max_age_hours) ==
    LET max_age == max_age_hours * HourTicks
        channels_to_remove == {c \in DOMAIN last_activity :
                                  now - last_activity[c] > max_age}
    IN
    /\ conversations' = Without(conversations, channels_to_remove)
    /\ last_activity' = Without(last_activity, channels_to_remove)
    /\ n_added' = [c \in Channels |-> IF c \in channels_to_remove THEN 0 ELSE n_added[c]]
    /\ result' = Swept(channels_to_remove)
    /\ UNCHANGED <<now, max_history, context_window, rlVars, taskVars, extVars>>

ExportConversation(c) ==
    /\ result' = IF c \notin DOMAIN conversations
                 THEN [op |-> "export_conversation", channel |-> c, error |-> TRUE]
                 ELSE [op |-> "export_conversation", channel |-> c, error |-> FALSE,
                       messages |-> conversations[c], exported_at |-> now]
    /\ UNCHANGED <<now, rlVars, cmVars, taskVars, extVars>>

\* The documents import_conversation is given, as json.loads reads them:
\* text that is no JSON (JSONDecodeError is logged and raised again), an object
\* without "messages" (.get gives []), an object with a list of messages
\* (empty, or one longer than any max_history).
ImportedTurn == Turn("user", "hi", 0, 0)
ImportData ==
    {[kind |-> "invalid"], [kind |-> "object"]}
    \cup {[kind |-> "object", messages |-> [i \in 1..n |-> ImportedTurn]] :
             n \in {0, MaxHist + 1}}

ImportedMessages(data) ==
    IF "messages" \in DOMAIN data THEN data.messages ELSE << >>

ImportConversation(c, data) ==
    IF data.kind = "invalid"
    THEN /\ result' = [op |-> "import_conversation", raised |-> TRUE]
         /\ UNCHANGED <<now, rlVars, cmVars, taskVars, extVars>>
    ELSE /\ conversations' = Bind(conversations, c, ImportedMessages(data))
         /\ last_activity' = Bind(last_activity, c, now)
         /\ n_added' = [n_added EXCEPT ![c] = -1]
         /\ result' = NoResult
         /\ UNCHANGED <<now, max_history, context_window, rlVars, taskVars, extVars>>

\* a second passes, once
CMHorizon == TicksPerSec

CMAdvance ==
    /\ now + TicksPerSec <= CMHorizon
    /\ now' = now + TicksPerSec
    /\ result' = NoResult
    /\ UNCHANGED <<rlVars, cmVars, taskVars, extVars>>

CMInit ==
    /\ now = 0
    /\ result = NoResult
    /\ RLConstructed(DefaultMaxRequests, DefaultWindowSeconds)
    /\ \E mh \in 1..MaxHist : CMConstructed(mh, DefaultContextWindow)
    /\ ExtConstructed

CMNext ==
    \/ \E c \in Channels, m \in Messages : AddMessage(c, m[1], m[2])
    \/ \E c \in Channels, max_messages \in {None, Some(1)} :
          GetConversationHistory(c, max_messages)
    \/ \E c \in Channels : ClearConversation(c)
    \/ \E c \in Channels, max_tokens \in {None, Some(1)} :
          GetContextForModel(c, max_tokens)
    \/ \E max_age_hours \in 0..1 : CleanupOldConversations(max_age_hours)
    \/ \E c \in Channels, data \in ImportData : ImportConversation(c, data)
    \/ CMAdvance

SpecCM == CMInit /\ [][CMNext]_vars

---------------------------------------------------------------------------
(* Context assembly and history reads: one channel whose history is built   *)
(* from turns of estimated sizes 0, 1 and 50 tokens, read with small        *)
(* budgets and limits.  The clock stands still.                             *)

\* the longest history here (max_history of this manager), the largest
\* context_window, and the largest limit given to get_conversation_history
CtxMaxLen == 4
MaxCtx == 2
MaxLimit == 3

\* 200 characters: 50 tokens by the estimate
Content50 ==
    "xxxxxxxxxxxxxxxxxxxxxxxxxxxxxxxxxxxxxxxxxxxxxxxxxxxxxxxxxxxxxxxxxxxxxxxxxxxxxxxxxxxxxxxxxxxxxxxxxxxxxxxxxxxxxxxxxxxxxxxxxxxxxxxxxxxxxxxxxxxxxxxxxxxxxxxxxxxxxxxxxxxxxxxxxxxxxxxxxxxxxxxxxxxxxxxxxxxxxxxx"

\* contents of 2, 7 and 200 characters: 0, 1 and 50 tokens
CtxMessages == {<<"user", "hi">>, <<"assistant", "abcdefg">>, <<"user", Content50>>}
CtxChannels == {1}
CtxBudgets == {None, Some(0), Some(1), Some(2), Some(120)}
CtxLimits == {None} \cup {Some(n) : n \in 0..MaxLimit}
\* an export of an empty conversation, with and without its "messages"
CtxImportData == {[kind |-> "object"], [kind |-> "object", messages |-> << >>]}

CtxInit ==
    /\ now = 0
    /\ result = NoResult
    /\ RLConstructed(DefaultMaxRequests, DefaultWindowSeconds)
    /\ \E cw \in 1..MaxCtx : CMConstructed(CtxMaxLen, cw)
    /\ ExtConstructed

CtxNext ==
    \/ \E c \in CtxChannels, m \in CtxMessages : AddMessage(c, m[1], m[2])
    \/ \E c \in CtxChannels, data \in CtxImportData : ImportConversation(c, data)
    \/ \E c \in CtxChannels : ClearConversation(c)
    \/ \E c \in CtxChannels, max_tokens \in CtxBudgets : GetContextForModel(c, max_tokens)
    \/ \E c \in CtxChannels, max_messages \in CtxLimits :
          GetConversationHistory(c, max_messages)

SpecCtx == CtxInit /\ [][CtxNext]_vars

---------------------------------------------------------------------------
(* The life of a conversation: two channels are written, read, cleared,     *)
(* swept, counted and exported, while one second passes.                    *)

LifeMessages == {<<"user", "hi">>}
\* exports of an empty conversation and of a conversation of one turn
LifeImportData ==
    {[kind |-> "object", messages |-> [i \in 1..n |-> ImportedTurn]] : n \in 0..1}

LifeInit ==
    /\ now = 0
    /\ result = NoResult
    /\ RLConstructed(DefaultMaxRequests, DefaultWindowSeconds)
    /\ CMConstructed(MaxHist, DefaultContextWindow)
    /\ ExtConstructed

LifeNext ==
    \/ \E c \in Channels, m \in LifeMessages : AddMessage(c, m[1], m[2])
    \/ \E c \in Channels, data \in LifeImportData : ImportConversation(c, data)
    \/ \E c \in Channels : ClearConversation(c)
    \/ \E c \in Channels : GetConversationHistory(c, None)
    \/ \E c \in Channels : GetContextForModel(c, None)
    \/ \E max_age_hours \in 0..1 : CleanupOldConversations(max_age_hours)
    \/ GetStats
    \/ \E c \in Channels : ExportConversation(c)
    \/ CMAdvance

SpecLife == LifeInit /\ [][LifeNext]_vars

---------------------------------------------------------------------------
(* The sweep: two channels are written at the start or a second later and   *)
(* swept an hour after the start or a second after that, with max_age_hours *)
(* 0 or 1.                                                                  *)

\* the times of the clock: 0 s, 1 s, 3600 s, 3601 s
SweepTimes == {0, TicksPerSec, HourTicks, HourTicks + TicksPerSec}
SweepAges == 0..1

SweepAdvance ==
    /\ \E t \in SweepTimes : t > now /\ now' = t
    /\ result' = NoResult
    /\ UNCHANGED <<rlVars, cmVars, taskVars, extVars>>

SweepInit ==
    /\ now = 0
    /\ result = NoResult
    /\ RLConstructed(DefaultMaxRequests, DefaultWindowSeconds)
    /\ CMConstructed(MaxHist, DefaultContextWindow)
    /\ ExtConstructed

SweepNext ==
    \/ \E c \in Channels, m \in LifeMessages : AddMessage(c, m[1], m[2])
    \/ \E c \in Channels : GetConversationHistory(c, None)
    \/ \E max_age_hours \in SweepAges : CleanupOldConversations(max_age_hours)
    \/ SweepAdvance

SpecSweep == SweepInit /\ [][SweepNext]_vars

---------------------------------------------------------------------------
(* Concurrency: tasks run the coroutines of one ConversationManager on      *)
(* channel 1.  A coroutine runs up to `async with self._lock`, takes the    *)
(* lock when it is free, runs its body in two parts and releases the lock;  *)
(* the caller then picks up what it returned.  The clock moves while no     *)
(* body runs, so a body's time.time() readings are one instant.             *)

TaskChannels == {1}
TaskImportData == {[kind |-> "invalid"], [kind |-> "object", messages |-> <<ImportedTurn>>]}

\* the calls a task makes
TaskCalls ==
    {[name |-> "add_message", channel |-> c, role |-> m[1], content |-> m[2]] :
        c \in TaskChannels, m \in Messages}
    \cup {[name |-> "clear_conversation", channel |-> c] : c \in TaskChannels}
    \cup {[name |-> "import_conversation", channel |-> c, data |-> d] :
             c \in TaskChannels, d \in TaskImportData}
    \cup {[name |-> "cleanup_old_conversations", max_age_hours |-> 0]}
    \cup {[name |-> "get_conversation_history", channel |-> c, max_messages |-> None] :
             c \in TaskChannels}
    \cup {[name |-> "get_context_for_model", channel |-> c, max_tokens |-> None] :
             c \in TaskChannels}

\* d[c] without creating the key
Lookup(d, c) == IF c \in DOMAIN d THEN d[c] ELSE << >>

\* The call run whole on the store st at time t: the store it leaves and what
\* it returns (None for the methods that return nothing).
RunWhole(st, call, t) ==
    LET convs == st.conversations
        acts == st.last_activity
        stored(cs, as, r) ==
            [store |-> [conversations |-> cs, last_activity |-> as], ret |-> r]
    IN
    CASE call.name = "add_message" ->
           stored(Bind(convs, call.channel,
                       Trim(Append(Lookup(convs, call.channel),
                                   Turn(call.role, call.content, t, 0)))),
                  Bind(acts, call.channel, t), None)
      [] call.name = "clear_conversation" ->
           stored(IF call.channel \in DOMAIN convs
                  THEN [convs EXCEPT ![call.channel] = << >>] ELSE convs,
                  acts, None)
      [] call.name = "import_conversation" ->
           stored(Bind(convs, call.channel, ImportedMessages(call.data)),
                  Bind(acts, call.channel, t), None)
      [] call.name = "cleanup_old_conversations" ->
           LET gone == {c \in DOMAIN acts : t - acts[c] > call.max_age_hours * HourTicks}
           IN stored(Without(convs, gone), Without(acts, gone), None)
      [] call.name = "get_conversation_history" ->
           LET history == Lookup(convs, call.channel)
           IN stored(Bind(convs, call.channel, history), acts,
                     IF Truthy(call.max_messages)
                     THEN PySuffix(history, call.max_messages[1]) ELSE history)
      [] call.name = "get_context_for_model" ->
           LET history == Lookup(convs, call.channel)
               budget == IF Truthy(call.max_tokens) THEN call.max_tokens[1]
                         ELSE context_window
           IN stored(Bind(convs, call.channel, history), acts,
                     ContextFrom(history, Len(history), << >>, 0, budget))

\* The task calls the method: the coroutine runs up to the lock.
\* import_conversation parses its document first and raises on text that is
\* no JSON; get_context_for_model settles its budget first.
Call(t, call) ==
    /\ tasks[t].pc = "idle"
    /\ tasks' = [tasks EXCEPT ![t] =
          IF call.name = "import_conversation" /\ call.data.kind = "invalid"
          THEN [pc |-> "done", call |-> call, raised |-> TRUE, contended |-> FALSE]
          ELSE [pc |-> "acquire", call |-> call,
                contended |-> \E o \in Tasks \ {t} : tasks[o].pc \in {"acquire", "first", "second"},
                local |-> CASE call.name = "import_conversation" ->
                                  ImportedMessages(call.data)
                            [] call.name = "get_context_for_model" ->
                                  IF Truthy(call.max_tokens) THEN call.max_tokens[1]
                                  ELSE context_window
                            [] OTHER -> None]]
    /\ UNCHANGED <<now, result, rlVars, cmVars, lock, serial, extVars>>

\* async with self._lock
\* (variant: the lock is taken whether it is held or not)
AcquireNotExclusive(t) ==
    /\ tasks[t].pc = "acquire"
    /\ lock' = t
    /\ LET whole == RunWhole(serial, tasks[t].call, now)
       IN /\ serial' = whole.store
          /\ tasks' = [tasks EXCEPT ![t] =
                [pc |-> "first", call |-> @.call, contended |-> @.contended,
                 local |-> @.local, expected |-> whole.ret]]
    /\ UNCHANGED <<now, result, rlVars, cmVars, extVars>>

Acquire(t) ==
    /\ tasks[t].pc = "acquire"
    /\ lock = Free
    /\ lock' = t
    /\ LET whole == RunWhole(serial, tasks[t].call, now)
       IN /\ serial' = whole.store
          /\ tasks' = [tasks EXCEPT ![t] =
                [pc |-> "first", call |-> @.call, contended |-> @.contended,
                 local |-> @.local, expected |-> whole.ret]]
    /\ UNCHANGED <<now, result, rlVars, cmVars, extVars>>

\* The first part of the body, run holding the lock:
\*   add_message: the message is built and appended
\*   clear_conversation: the test `channel_id in self.conversations`
\*   import_conversation: self.conversations[channel_id] = messages
\*   cleanup_old_conversations: the loop that collects channels_to_remove
\*   get_conversation_history, get_context_for_model:
\*       history = self.conversations[channel_id]
First(t) ==
    /\ tasks[t].pc = "first"
    /\ LET call == tasks[t].call
           moved(l) == [tasks EXCEPT ![t] =
                           [pc |-> "second", call |-> @.call, contended |-> @.contended,
                            expected |-> @.expected, local |-> l]]
       IN
       CASE call.name = "add_message" ->
              /\ conversations' =
                    Bind(conversations, call.channel,
                         Append(Conversation(call.channel),
                                Turn(call.role, call.content, now, 0)))
              /\ tasks' = moved(None)
         [] call.name = "clear_conversation" ->
              /\ tasks' = moved(call.channel \in DOMAIN conversations)
              /\ UNCHANGED conversations
         [] call.name = "import_conversation" ->
              /\ conversations' = Bind(conversations, call.channel, tasks[t].local)
              /\ tasks' = moved(None)
         [] call.name = "cleanup_old_conversations" ->
              /\ tasks' = moved({c \in DOMAIN last_activity :
                                    now - last_activity[c] > call.max_age_hours * HourTicks})
              /\ UNCHANGED conversations
         [] call.name = "get_conversation_history" ->
              /\ conversations' =
                    Bind(conversations, call.channel, Conversation(call.channel))
              /\ tasks' = moved(Conversation(call.channel))
         [] call.name = "get_context_for_model" ->
              /\ conversations' =
                    Bind(conversations, call.channel, Conversation(call.channel))
              /\ tasks' = moved([budget |-> tasks[t].local,
                                 history |-> Conversation(call.channel)])
    /\ UNCHANGED <<now, result, rlVars, max_history, context_window, last_activity,
                   n_added, lock, serial, extVars>>

\* The rest of the body, the release of the lock and the return:
\*   add_message: last_activity is set and the history trimmed
\*   clear_conversation: the list is cleared, if the key was there
\*   import_conversation: last_activity is set
\*   cleanup_old_conversations: the channels collected are deleted
\*   get_conversation_history: the slice and the copy
\*   get_context_for_model: the loop over reversed(history)
Second(t) ==
    /\ tasks[t].pc = "second"
    /\ LET call == tasks[t].call
           local == tasks[t].local
           returned(r) == [tasks EXCEPT ![t] =
                              [pc |-> "done", call |-> @.call, contended |-> @.contended,
                               expected |-> @.expected, raised |-> FALSE, ret |-> r]]
       IN
       CASE call.name = "add_message" ->
              /\ last_activity' = Bind(last_activity, call.channel, now)
              /\ conversations' =
                    Bind(conversations, call.channel, Trim(Conversation(call.channel)))
              /\ tasks' = returned(None)
         [] call.name = "clear_conversation" ->
              /\ conversations' =
                    IF local /\ call.channel \in DOMAIN conversations
                    THEN [conversations EXCEPT ![call.channel] = << >>]
                    ELSE conversations
              /\ tasks' = returned(None)
              /\ UNCHANGED last_activity
         [] call.name = "import_conversation" ->
              /\ last_activity' = Bind(last_activity, call.channel, now)
              /\ tasks' = returned(None)
              /\ UNCHANGED conversations
         [] call.name = "cleanup_old_conversations" ->
              /\ conversations' = Without(conversations, local)
              /\ last_activity' = Without(last_activity, local)
              /\ tasks' = returned(None)
         [] call.name = "get_conversation_history" ->
              /\ tasks' = returned(IF Truthy(call.max_messages)
                                   THEN PySuffix(local, call.max_messages[1])
                                   ELSE local)
              /\ UNCHANGED <<conversations, last_activity>>
         [] call.name = "get_context_for_model" ->
              /\ tasks' = returned(ContextFrom(local.history, Len(local.history),
                                               << >>, 0, local.budget))
              /\ UNCHANGED <<conversations, last_activity>>
    /\ lock' = Free
    /\ UNCHANGED <<now, result, rlVars, max_history, context_window, n_added, serial, extVars>>

\* the caller has the result (or the exception) and the task is free again
Return(t) ==
    /\ tasks[t].pc = "done"
    /\ tasks' = [tasks EXCEPT ![t] = IdleTask]
    /\ UNCHANGED <<now, result, rlVars, cmVars, lock, serial, extVars>>

\* a second passes, once, while no body runs
TaskAdvance ==
    /\ lock = Free
    /\ \A t \in Tasks : tasks[t].pc \notin {"first", "second"}
    /\ now + TicksPerSec <= CMHorizon
    /\ now' = now + TicksPerSec
    /\ UNCHANGED <<result, rlVars, cmVars, taskVars, extVars>>

TaskInit ==
    /\ now = 0
    /\ result = NoResult
    /\ RLConstructed(DefaultMaxRequests, DefaultWindowSeconds)
    /\ CMConstructed(MaxHist, DefaultContextWindow)
    /\ ExtConstructed

TaskNext ==
    \/ \E t \in Tasks, call \in TaskCalls : Call(t, call)
    \/ \E t \in Tasks : Acquire(t)
    \/ \E t \in Tasks : First(t)
    \/ \E t \in Tasks : Second(t)
    \/ \E t \in Tasks : Return(t)
    \/ TaskAdvance

SpecTasks == TaskInit /\ [][TaskNext]_vars

---------------------------------------------------------------------------
(* The scenario of the specification's "rate window" test: one user, a      *)
(* limiter built with max_requests = 3 and window_seconds = 60, and a clock *)
(* that moves by a whole window or by a window and a second.                *)

ScenarioConfig == [max_requests |-> 3, window_seconds |-> 60]
ScenarioUsers == {1}
ScenarioSteps == {ScenarioConfig.window_seconds, ScenarioConfig.window_seconds + 1}
ScenarioHorizon == 2 * (ScenarioConfig.window_seconds + 1) * TicksPerSec

AdvanceBy(secs) ==
    /\ now + secs * TicksPerSec <= ScenarioHorizon
    /\ now' = now + secs * TicksPerSec
    /\ admitted' = [u \in Users |-> InWindow(admitted[u], now')]
    /\ result' = NoResult
    /\ UNCHANGED <<max_requests, window_seconds, user_requests, calls_since_reset, cmVars, taskVars, extVars>>

ScenarioInit ==
    /\ now = 0
    /\ result = NoResult
    /\ RLConstructed(ScenarioConfig.max_requests, ScenarioConfig.window_seconds)
    /\ CMConstructed(DefaultMaxHistory, DefaultContextWindow)
    /\ ExtConstructed

ScenarioNext ==
    \/ \E u \in ScenarioUsers : IsRateLimited(u)
    \/ \E u \in ScenarioUsers : GetUserStats(u)
    \/ \E u \in ScenarioUsers : ResetUser(u)
    \/ CleanupOldEntries
    \/ \E secs \in ScenarioSteps : AdvanceBy(secs)

SpecRLScenario == ScenarioInit /\ [][ScenarioNext]_vars

---------------------------------------------------------------------------
(* CleanTerminal (src/clean_enhanced_bot.py): the command filter            *)
(*                                                                         *)
(* A command string is kept as the sequence of its blank-separated words;  *)
(* the string is the words joined by single blanks.                        *)

\* the longest command, in words, and the most commands a session runs
MaxWords == 2
MaxCommands == 2

\* self.allowed_commands, self.forbidden_commands
AllowedCommands ==
    {"ls", "cat", "head", "tail", "grep", "find", "pwd", "whoami", "date", "echo",
     "git", "python3", "node", "npm", "pip3", "wc", "sort", "uniq", "cut"}
ForbiddenCommands ==
    {"rm", "rmdir", "chmod", "chown", "sudo", "su", "passwd", "systemctl", "kill",
     "killall", "pkill", "shutdown", "reboot", "fdisk", "mkfs", "dd",
     "nmap", "netstat", "ss", "wireshark", "tcpdump", "metasploit", "aircrack",
     "hydra", "john", "hashcat", "burpsuite", "sqlmap", "nikto", "dirb", "gobuster"}

\* the words commands are made of: an allowed, a forbidden and an unlisted
\* command name, an option, the shell's metacharacter sequences on their own
\* and inside a word, and a quotation mark.  BackquotedId stands for the word
\* id between two backquotes, a character a string here cannot hold.
Quote == "'"
BackquotedId == "[backquote]id[backquote]"
MetaWords == {"|", ">", "<", "&&", "||", ";", BackquotedId, "$(id)", "ls;id"}
CommandWords == {"ls", "rm", "foo", "-la", Quote} \cup MetaWords

RECURSIVE SeqsUpTo(_, _)
SeqsUpTo(S, n) ==
    IF n = 0 THEN {<< >>}
    ELSE LET shorter == SeqsUpTo(S, n - 1)
         IN shorter \cup {Append(q, x) : q \in {r \in shorter : Len(r) = n - 1}, x \in S}
Commands == SeqsUpTo(CommandWords, MaxWords)

\* any(char in command for char in ['|', '>', '<', '&&', '||', ';', '`', '$('])
ContainsMeta(command) == \E i \in 1..Len(command) : command[i] \in MetaWords

\* shlex.split(command.strip()): the words are the tokens, except that the
\* words between two quotation marks make one token (blanks included), and a
\* quotation mark left open raises ValueError.  quoted is the token being
\* collected inside quotation marks, or None outside them.
RECURSIVE ShlexFrom(_, _, _)
ShlexFrom(words, quoted, parts) ==
    IF words = << >>
    THEN IF quoted = None THEN [raised |-> FALSE, parts |-> parts]
         ELSE [raised |-> TRUE, parts |-> << >>]
    ELSE IF Head(words) = Quote
         THEN IF quoted = None THEN ShlexFrom(Tail(words), <<" ">>, parts)
              ELSE ShlexFrom(Tail(words), None, Append(parts, quoted[1]))
         ELSE IF quoted = None THEN ShlexFrom(Tail(words), None, Append(parts, Head(words)))
              ELSE ShlexFrom(Tail(words), <<quoted[1] \o Head(words) \o " ">>, parts)
ShlexSplit(command) == ShlexFrom(command, None, << >>)

\* CleanTerminal.is_command_allowed
IsCommandAllowed(command) ==
    IF command = << >> THEN [allowed |-> FALSE, reason |-> "Empty command"]
    ELSE LET split == ShlexSplit(command) IN
         IF split.raised THEN [allowed |-> FALSE, reason |-> "Invalid command syntax"]
         ELSE IF split.parts = << >>
              THEN [allowed |-> FALSE, reason |-> "No command provided"]
         ELSE LET base_command == split.parts[1] IN
              IF base_command \in ForbiddenCommands
              THEN [allowed |-> FALSE, reason |-> "Command is not allowed"]
              ELSE IF base_command \in AllowedCommands
              THEN [allowed |-> TRUE, reason |-> "Command allowed"]
              ELSE IF ContainsMeta(command)
              THEN [allowed |-> FALSE, reason |-> "Complex command syntax not allowed"]
              ELSE [allowed |-> FALSE, reason |-> "Command not in allowlist"]

\* CleanTerminal(user_id, channel_id), constructed at time t
CleanTerminal(user_id, channel_id, t) ==
    [user_id |-> user_id, channel_id |-> channel_id, last_used |-> t, command_count |-> 0]

\* CleanTerminal.execute_command on the session sid: a command that is not
\* allowed is answered with the reason; an allowed one is counted and handed
\* to subprocess.run(command, shell=True).  shell is the string the shell
\* was given, or None.
ExecuteCommand(sid, command) ==
    LET checked == IsCommandAllowed(command)
        terminal == active_terminals[sid]
    IN
    /\ terminal.command_count < MaxCommands
    /\ active_terminals' =
          IF checked.allowed
          THEN [active_terminals EXCEPT ![sid] =
                   [@ EXCEPT !.last_used = now, !.command_count = @ + 1]]
          ELSE active_terminals
    /\ result' = [op |-> "execute_command", command |-> command,
                  allowed |-> checked.allowed, reason |-> checked.reason,
                  shell |-> IF checked.allowed THEN Some(command) ELSE None]
    /\ UNCHANGED <<now, rlVars, cmVars, taskVars, exceptTerm, handlers>>

\* one terminal session, as /terminal creates it, given commands
CmdInit ==
    /\ now = 0
    /\ result = NoResult
    /\ RLConstructed(DefaultMaxRequests, DefaultWindowSeconds)
    /\ CMConstructed(DefaultMaxHistory, DefaultContextWindow)
    /\ WfConstructed
    /\ FmConstructed([u \in FileUsers |-> << >>])
    /\ BotConstructed
    /\ handlers = [t \in Tasks |-> IdleTask]
    /\ active_terminals = [sid \in {1} |-> CleanTerminal(1, 1, 0)]

CmdNext == \E sid \in DOMAIN active_terminals, command \in Commands :
               ExecuteCommand(sid, command)

SpecCmd == CmdInit /\ [][CmdNext]_vars

---------------------------------------------------------------------------
(* The terminal handlers of clean_enhanced_bot.py: /terminal, /term and the *)
(* cleanup loop.  A slash command handler first awaits                      *)
(* interaction.response.defer(); what follows runs without another await    *)
(* that matters to the sessions, so it is one step.                         *)

\* config.TERMINAL_TIMEOUT (seconds), and the seconds of a day
DefaultTerminalTimeout == 300
DaySeconds == 86400

TermUsers == {1, 2}
TermChannels == {1}
\* str(uuid.uuid4())[:8]: any value, one already in use included
SessionIds == {1, 2}
TermCommands == {<<"ls">>, <<"rm">>}

\* (datetime.now() - self.last_used).seconds: the seconds field of the
\* timedelta, which leaves out its days
TimedeltaSeconds(elapsed) == (elapsed \div TicksPerSec) % DaySeconds

\* CleanTerminal.is_expired
IsExpiredTerminal(terminal) ==
    TimedeltaSeconds(now - terminal.last_used) > DefaultTerminalTimeout

\* the sessions of (user_id, channel_id), and the one the handlers' loops find
\* (the first in the dictionary's order; the choice matters only where a pair
\* has several)
SessionsOf(user_id, channel_id) ==
    {sid \in DOMAIN active_terminals :
        /\ active_terminals[sid].user_id = user_id
        /\ active_terminals[sid].channel_id = channel_id}
FoundSession(user_id, channel_id) ==
    IF SessionsOf(user_id, channel_id) = {} THEN None
    ELSE Some(CHOOSE sid \in SessionsOf(user_id, channel_id) :
                 \A other \in SessionsOf(user_id, channel_id) : sid <= other)

\* a slash command arrives: the handler awaits interaction.response.defer()
SlashStart(t, name, user_id, channel_id, command) ==
    /\ handlers[t].pc = "idle"
    /\ handlers' = [handlers EXCEPT ![t] =
          [pc |-> "deferred", name |-> name, user_id |-> user_id,
           channel_id |-> channel_id, command |-> command,
           contended |-> \E o \in Tasks \ {t} :
                            /\ handlers[o].pc = "deferred"
                            /\ handlers[o].name = name
                            /\ handlers[o].user_id = user_id
                            /\ handlers[o].channel_id = channel_id]]
    /\ UNCHANGED <<coreVars, active_terminals, exceptTerm>>

\* slash_terminal after the defer: the existing session is reported, or a
\* new one is created under a fresh session id
\* (variant: a session is created without looking for an existing one)
SlashTerminalBodyAlwaysCreates(t) ==
    LET h == handlers[t] IN
    /\ h.pc = "deferred" /\ h.name = "terminal"
    /\ \E sid \in SessionIds :
          /\ active_terminals' =
                Bind(active_terminals, sid, CleanTerminal(h.user_id, h.channel_id, now))
          /\ result' = [op |-> "slash_terminal", outcome |-> "created",
                        session |-> sid, contended |-> h.contended]
    /\ handlers' = [handlers EXCEPT ![t] = IdleTask]
    /\ UNCHANGED <<now, rlVars, cmVars, taskVars, exceptTerm>>

SlashTerminalBody(t) ==
    LET h == handlers[t]
        existing == FoundSession(h.user_id, h.channel_id)
    IN
    /\ h.pc = "deferred" /\ h.name = "terminal"
    /\ IF existing # None
       THEN /\ result' = [op |-> "slash_terminal", outcome |-> "existing",
                          session |-> existing[1], contended |-> h.contended]
            /\ UNCHANGED active_terminals
       ELSE \E sid \in SessionIds :
               /\ active_terminals' =
                     Bind(active_terminals, sid,
                          CleanTerminal(h.user_id, h.channel_id, now))
               /\ result' = [op |-> "slash_terminal", outcome |-> "created",
                             session |-> sid, contended |-> h.contended]
    /\ handlers' = [handlers EXCEPT ![t] = IdleTask]
    /\ UNCHANGED <<now, rlVars, cmVars, taskVars, exceptTerm>>

\* slash_term after the defer: no session, an expired session (deleted), or
\* the command is executed in the session
SlashTermBody(t) ==
    LET h == handlers[t]
        found == FoundSession(h.user_id, h.channel_id)
    IN
    /\ h.pc = "deferred" /\ h.name = "term"
    /\ IF found = None
       THEN /\ result' = [op |-> "slash_term", outcome |-> "no session"]
            /\ UNCHANGED active_terminals
       ELSE IF IsExpiredTerminal(active_terminals[found[1]])
       THEN /\ active_terminals' = Without(active_terminals, {found[1]})
            /\ result' = [op |-> "slash_term", outcome |-> "expired"]
       ELSE LET checked == IsCommandAllowed(h.command) IN
            /\ active_terminals[found[1]].command_count < MaxCommands
            /\ active_terminals' =
                  IF checked.allowed
                  THEN [active_terminals EXCEPT ![found[1]] =
                           [@ EXCEPT !.last_used = now, !.command_count = @ + 1]]
                  ELSE active_terminals
            /\ result' = [op |-> "slash_term",
                          outcome |-> IF checked.allowed THEN "executed" ELSE "refused"]
    /\ handlers' = [handlers EXCEPT ![t] = IdleTask]
    /\ UNCHANGED <<now, rlVars, cmVars, taskVars, exceptTerm>>

\* cleanup_terminals: every expired session is deleted
CleanupTerminals ==
    LET expired == {sid \in DOMAIN active_terminals :
                       IsExpiredTerminal(active_terminals[sid])}
    IN
    /\ active_terminals' = Without(active_terminals, expired)
    /\ result' = [op |-> "cleanup_terminals", expired |-> expired,
                  idle |-> [sid \in DOMAIN active_terminals |->
                               now - active_terminals[sid].last_used]]
    /\ UNCHANGED <<now, rlVars, cmVars, taskVars, exceptTerm, handlers>>

\* the clock moves to a later one of the given times
ClockTo(times) ==
    /\ \E time \in times : time > now /\ now' = time
    /\ result' = NoResult
    /\ UNCHANGED <<rlVars, cmVars, taskVars, extVars>>

TermInit ==
    /\ now = 0
    /\ result = NoResult
    /\ RLConstructed(DefaultMaxRequests, DefaultWindowSeconds)
    /\ CMConstructed(DefaultMaxHistory, DefaultContextWindow)
    /\ ExtConstructed

\* Two tasks serve /terminal and /term of two users of one channel while the
\* clock passes the timeout once.
TermTimes == {0, (DefaultTerminalTimeout + 1) * TicksPerSec}

TermNext ==
    \/ \E t \in Tasks, u \in TermUsers, c \in TermChannels :
          SlashStart(t, "terminal", u, c, << >>)
    \/ \E t \in Tasks, u \in TermUsers, c \in TermChannels, command \in TermCommands :
          SlashStart(t, "term", u, c, command)
    \/ \E t \in Tasks : SlashTerminalBody(t)
    \/ \E t \in Tasks : SlashTermBody(t)
    \/ CleanupTerminals
    \/ ClockTo(TermTimes)

SpecTerm == TermInit /\ [][TermNext]_vars

\* One task serves one user while the clock passes the timeout, a day, and a
\* day and the timeout.
ExpiryTimes ==
    {0, DefaultTerminalTimeout * TicksPerSec, (DefaultTerminalTimeout + 1) * TicksPerSec,
     DaySeconds * TicksPerSec, (DaySeconds + DefaultTerminalTimeout + 1) * TicksPerSec}

ExpiryNext ==
    \/ \E u \in TermUsers, c \in TermChannels : SlashStart(1, "terminal", u, c, << >>)
    \/ \E u \in TermUsers, c \in TermChannels, command \in TermCommands :
          SlashStart(1, "term", u, c, command)
    \/ SlashTerminalBody(1)
    \/ SlashTermBody(1)
    \/ CleanupTerminals
    \/ ClockTo(ExpiryTimes)

SpecExpiry == TermInit /\ [][ExpiryNext]_vars

---------------------------------------------------------------------------
(* AdvancedAgentWorkflows: _build_execution_order, and the task that        *)
(* start_workflow creates to run _execute_workflow.                         *)

\* s.get('name', f"{s['agent']}_{s['task']}")
StepName(s) == IF s.name # None THEN s.name[1] ELSE s.agent \o "_" \o s.task

InSeq(x, seq) == \E i \in DOMAIN seq : seq[i] = x
Front(seq) == SubSeq(seq, 1, Len(seq) - 1)

\* remaining = {name: s for s in steps}: a dictionary in insertion order; a
\* name that comes again keeps its place and takes the later step
DictPut(d, name, step) ==
    IF \E i \in DOMAIN d : d[i].name = name
    THEN [i \in DOMAIN d |-> IF d[i].name = name THEN [name |-> name, step |-> step]
                                               ELSE d[i]]
    ELSE Append(d, [name |-> name, step |-> step])

RECURSIVE StepDict(_)
StepDict(steps) ==
    IF steps = << >> THEN << >>
    ELSE DictPut(StepDict(Front(steps)), StepName(steps[Len(steps)]), steps[Len(steps)])

RECURSIVE NamesOf(_)
NamesOf(entries) ==
    IF entries = << >> THEN << >>
    ELSE <<entries[1].name>> \o NamesOf(Tail(entries))

\* the steps of remaining whose dependencies are all in order
IsReady(entry, order) ==
    \A i \in DOMAIN entry.step.depends_on : InSeq(entry.step.depends_on[i], order)

\* one round of the while loop of _build_execution_order
Round(order, remaining) ==
    LET found == NamesOf(SelectSeq(remaining, LAMBDA e : IsReady(e, order)))
        ready == IF found = << >> THEN <<remaining[1].name>> ELSE found
    IN [order |-> order \o ready,
        remaining |-> SelectSeq(remaining, LAMBDA e : ~InSeq(e.name, ready))]

RECURSIVE Rounds(_, _)
Rounds(order, remaining) ==
    IF remaining = << >> THEN order
    ELSE Rounds(Round(order, remaining).order, Round(order, remaining).remaining)

BuildExecutionOrder(steps) == Rounds(<< >>, StepDict(steps))

\* _build_execution_order(steps), round by round
SortRound ==
    /\ sorting.pc = "loop"
    /\ sorting' =
          IF sorting.remaining = << >>
          THEN [sorting EXCEPT !.pc = "returned"]
          ELSE [sorting EXCEPT
                   !.order = Round(sorting.order, sorting.remaining).order,
                   !.remaining = Round(sorting.order, sorting.remaining).remaining,
                   !.rounds = @ + 1]
    /\ UNCHANGED <<coreVars, exceptWf, workflow_templates, active_workflows, executions>>

\* the lists of steps given to _build_execution_order: up to MaxSteps steps;
\* step i is named StepNames[i], or (the last one) like the first; each
\* depends on nothing, on one other name (the unknown name "x" included) or
\* on the names of two other steps
MaxSteps == 3
StepNames == <<"a", "b", "c", "d", "e">>
DepNames == SubSeq(StepNames, 1, MaxSteps) \o <<"x">>
DepLists(i) ==
    {<< >>} \cup {<<DepNames[j]>> : j \in DOMAIN DepNames \ {i}}
            \cup {<<DepNames[j], DepNames[k]>> :
                     <<j, k>> \in {p \in ((1..MaxSteps) \ {i}) \X ((1..MaxSteps) \ {i}) :
                                     p[1] < p[2]}}
StepLists ==
    UNION {
        {[i \in 1..n |->
             NamedStep(IF i = n /\ dup /\ n > 1 THEN StepNames[1] ELSE StepNames[i],
                       deps[i])] :
            deps \in {f \in [1..n -> DepLists(0)] : \A i \in 1..n : f[i] \in DepLists(i)},
            dup \in BOOLEAN}
        : n \in 0..MaxSteps}

SortInit ==
    /\ now = 0
    /\ result = NoResult
    /\ RLConstructed(DefaultMaxRequests, DefaultWindowSeconds)
    /\ CMConstructed(DefaultMaxHistory, DefaultContextWindow)
    /\ TermConstructed
    /\ FmConstructed([u \in FileUsers |-> << >>])
    /\ BotConstructed
    /\ workflow_templates = WorkflowTemplates
    /\ active_workflows = << >>
    /\ executions = << >>
    /\ \E steps \in StepLists :
          sorting = [pc |-> "loop", steps |-> steps, order |-> << >>,
                     remaining |-> StepDict(steps), rounds |-> 0]

SortNext == SortRound

SpecSort == SortInit /\ [][SortNext]_vars

---------------------------------------------------------------------------
(* AdvancedAgentWorkflows: start_workflow and the _execute_workflow task *)

\* max_wait of _wait_for_dependencies (seconds)
MaxWait == 300

WorkflowIds == {1, 2}
WorkflowTypes == DOMAIN WorkflowTemplates

\* start_workflow(workflow_type, ...): the workflow is registered under a new
\* id and a task is created for _execute_workflow
StartWorkflow(w, workflow_type) ==
    /\ w \notin DOMAIN active_workflows
    /\ active_workflows' =
          Bind(active_workflows, w,
               [type |-> workflow_type, status |-> "running", steps |-> << >>,
                current_step |-> 0,
                total_steps |-> Len(workflow_templates[workflow_type])])
    /\ executions' = Bind(executions, w, [pc |-> "start"])
    /\ result' = [op |-> "start_workflow", value |-> w]
    /\ UNCHANGED <<now, rlVars, cmVars, taskVars, exceptWf, workflow_templates, sorting>>

\* _execute_workflow: execution_order = self._build_execution_order(...)
ExecuteWorkflowStart(w) ==
    /\ w \in DOMAIN executions
    /\ executions[w].pc = "start"
    /\ executions' = [executions EXCEPT ![w] =
          [pc |-> "step", index |-> 1,
           order |-> BuildExecutionOrder(workflow_templates[active_workflows[w].type])]]
    /\ result' = NoResult
    /\ UNCHANGED <<now, rlVars, cmVars, taskVars, exceptWf, workflow_templates,
                   active_workflows, sorting>>

\* the first step of the template with the name step_name
StepAt(steps, step_name) ==
    CHOOSE j \in DOMAIN steps :
        /\ StepName(steps[j]) = step_name
        /\ \A k \in 1..(j - 1) : StepName(steps[k]) # step_name

\* for step_name in execution_order: the next step enters
\* _wait_for_dependencies; after the last one the workflow is completed
ExecuteWorkflowStep(w) ==
    /\ w \in DOMAIN executions
    /\ executions[w].pc = "step"
    /\ LET e == executions[w] IN
       IF e.index > Len(e.order)
       THEN /\ active_workflows' = [active_workflows EXCEPT ![w].status =
                   IF @ # "failed" THEN "completed" ELSE @]
            /\ executions' = [executions EXCEPT ![w] = [pc |-> "done"]]
       ELSE /\ executions' = [executions EXCEPT ![w] =
                   [pc |-> "wait", index |-> e.index, order |-> e.order,
                    at |-> StepAt(workflow_templates[active_workflows[w].type],
                                  e.order[e.index]),
                    start_time |-> now]]
            /\ UNCHANGED active_workflows
    /\ result' = NoResult
    /\ UNCHANGED <<now, rlVars, cmVars, taskVars, exceptWf, workflow_templates, sorting>>

\* a dependency is met when a step of that name is recorded as completed
DepCompleted(workflow, dep) ==
    dep \in DOMAIN workflow.steps /\ workflow.steps[dep] = "completed"

\* one round of the while loop of _wait_for_dependencies; deps is the
\* depends_on list of the template itself, and deps.remove changes it
WaitForDependencies(w) ==
    /\ w \in DOMAIN executions
    /\ executions[w].pc = "wait"
    /\ LET e == executions[w]
           type == active_workflows[w].type
           deps == workflow_templates[type][e.at].depends_on
           left == SelectSeq(deps, LAMBDA dep : ~DepCompleted(active_workflows[w], dep))
       IN
       IF deps = << >>
       THEN /\ executions' = [executions EXCEPT ![w].pc = "call"]
            /\ UNCHANGED <<workflow_templates, active_workflows>>
       ELSE IF TimedeltaSeconds(now - e.start_time) > MaxWait
       THEN \* raise TimeoutError, caught by _execute_workflow
            /\ active_workflows' = [active_workflows EXCEPT ![w].status = "error"]
            /\ executions' = [executions EXCEPT ![w] = [pc |-> "done"]]
            /\ UNCHANGED workflow_templates
       ELSE /\ workflow_templates' =
                   [workflow_templates EXCEPT ![type][e.at].depends_on = left]
            /\ executions' = [executions EXCEPT ![w] =
                   IF left # << >>
                   THEN [e EXCEPT !.pc = "sleep"] @@ [wake |-> now + TicksPerSec]
                   ELSE [e EXCEPT !.pc = "call"]]
            /\ UNCHANGED active_workflows
    /\ result' = NoResult
    /\ UNCHANGED <<now, rlVars, cmVars, taskVars, exceptWf, sorting>>

\* await asyncio.sleep(1) returns
WaitWake(w) ==
    /\ w \in DOMAIN executions
    /\ executions[w].pc = "sleep"
    /\ now >= executions[w].wake
    /\ executions' = [executions EXCEPT ![w].pc = "wait"]
    /\ result' = NoResult
    /\ UNCHANGED <<now, rlVars, cmVars, taskVars, exceptWf, workflow_templates,
                   active_workflows, sorting>>

\* _execute_step and what follows it in the loop body: the agent call
\* succeeds or fails, the step is recorded, a failure ends the workflow
ExecuteStep(w, success) ==
    /\ w \in DOMAIN executions
    /\ executions[w].pc = "call"
    /\ LET e == executions[w] IN
       /\ active_workflows' = [active_workflows EXCEPT
             ![w].steps = Bind(@, e.order[e.index],
                               IF success THEN "completed" ELSE "failed"),
             ![w].current_step = @ + 1,
             ![w].status = IF success THEN @ ELSE "failed"]
       /\ executions' = [executions EXCEPT ![w] =
             IF success
             THEN [pc |-> "step", index |-> e.index + 1, order |-> e.order]
             ELSE [pc |-> "done"]]
    /\ result' = NoResult
    /\ UNCHANGED <<now, rlVars, cmVars, taskVars, exceptWf, workflow_templates, sorting>>

WfInit ==
    /\ now = 0
    /\ result = NoResult
    /\ RLConstructed(DefaultMaxRequests, DefaultWindowSeconds)
    /\ CMConstructed(DefaultMaxHistory, DefaultContextWindow)
    /\ ExtConstructed

\* the clock passes a second, the dependency timeout, and a second more;
\* no time passes between start_time = datetime.now() and the first round of
\* the loop, nor between a wake-up and the next round
WfTimes == {TicksPerSec, MaxWait * TicksPerSec, (MaxWait + 1) * TicksPerSec}
WfAdvance ==
    /\ \A w \in DOMAIN executions : executions[w].pc # "wait"
    /\ ClockTo(WfTimes)

WfNext ==
    \/ \E w \in WorkflowIds, type \in WorkflowTypes : StartWorkflow(w, type)
    \/ \E w \in WorkflowIds : ExecuteWorkflowStart(w)
    \/ \E w \in WorkflowIds : ExecuteWorkflowStep(w)
    \/ \E w \in WorkflowIds : WaitForDependencies(w)
    \/ \E w \in WorkflowIds : WaitWake(w)
    \/ \E w \in WorkflowIds, success \in BOOLEAN : ExecuteStep(w, success)
    \/ WfAdvance

SpecWf == WfInit /\ [][WfNext]_vars

---------------------------------------------------------------------------
(* SecureFileManager: upload_file, delete_file, get_user_usage.  upload_file *)
(* is suspended while the file is opened and written (aiofiles) and again    *)
(* while it is closed; delete_file and get_user_usage contain no await.      *)

MB == 1024 * 1024
\* self.max_file_size, self.max_user_quota
MaxFileSize == 10 * MB
MaxUserQuota == 100 * MB
AllowedExtensions == {".txt", ".py", ".js", ".json", ".yaml", ".yml", ".md", ".log", ".csv"}

\* a path of a user's directory: the sanitized name, with the counter that
\* made it unique (0: none)
Path(stem, ext, counter) == [stem |-> stem, ext |-> ext, counter |-> counter]

RECURSIVE SumSizes(_)
SumSizes(files) ==
    IF DOMAIN files = {} THEN 0
    ELSE LET p == CHOOSE p \in DOMAIN files : TRUE
         IN files[p] + SumSizes(Without(files, {p}))

\* the total size of the files of the user's directory
DiskUsage(user_id) == SumSizes(disk[user_id])

\* get_user_usage: user_quotas after the call, and the value returned
UsageQuotas(user_id) ==
    IF user_id \notin DOMAIN user_quotas
    THEN Bind(user_quotas, user_id, DiskUsage(user_id))
    ELSE user_quotas
UsageValue(user_id) == UsageQuotas(user_id)[user_id]

GetUserUsage(user_id) ==
    /\ user_quotas' = UsageQuotas(user_id)
    /\ result' = [op |-> "get_user_usage", user_id |-> user_id,
                  value |-> UsageValue(user_id)]
    /\ UNCHANGED <<now, rlVars, cmVars, taskVars, exceptFm, disk, uploads, accepted>>

\* while full_path.exists(): the first counter for which the path is free
RECURSIVE UniquePath(_, _, _, _)
UniquePath(user_id, stem, ext, counter) ==
    IF Path(stem, ext, counter) \in DOMAIN disk[user_id]
    THEN UniquePath(user_id, stem, ext, counter + 1)
    ELSE Path(stem, ext, counter)

\* upload_file up to `async with aiofiles.open(full_path, 'wb')`
UploadFile(t, user_id, stem, ext, size) ==
    /\ uploads[t].pc = "idle"
    /\ IF size > MaxFileSize
       THEN /\ result' = [op |-> "upload_file", raised |-> "File too large"]
            /\ UNCHANGED <<user_quotas, uploads>>
       ELSE IF ext \notin AllowedExtensions
       THEN /\ result' = [op |-> "upload_file", raised |-> "File type not allowed"]
            /\ UNCHANGED <<user_quotas, uploads>>
       ELSE /\ user_quotas' = UsageQuotas(user_id)
            /\ IF UsageValue(user_id) + size > MaxUserQuota
               THEN /\ result' = [op |-> "upload_file", raised |-> "User quota exceeded"]
                    /\ UNCHANGED uploads
               ELSE /\ result' = NoResult
                    /\ uploads' = [uploads EXCEPT ![t] =
                          [pc |-> "open", user_id |-> user_id, size |-> size,
                           current_usage |-> UsageValue(user_id),
                           full_path |-> UniquePath(user_id, stem, ext, 0)]]
    /\ UNCHANGED <<now, rlVars, cmVars, taskVars, exceptFm, disk, accepted>>

\* the file is opened for writing and the content is written
UploadWrite(t) ==
    /\ uploads[t].pc = "open"
    /\ disk' = [disk EXCEPT ![uploads[t].user_id] =
                   Bind(@, uploads[t].full_path, uploads[t].size)]
    /\ uploads' = [uploads EXCEPT ![t].pc = "written"]
    /\ result' = NoResult
    /\ UNCHANGED <<now, rlVars, cmVars, taskVars, exceptFm, user_quotas, accepted>>

\* the file is closed; self.user_quotas[user_id] = current_usage + len(content)
UploadReturn(t) ==
    LET up == uploads[t] IN
    /\ up.pc = "written"
    /\ user_quotas' = Bind(user_quotas, up.user_id, up.current_usage + up.size)
    /\ accepted' = [accepted EXCEPT ![up.user_id].bytes = @ + up.size,
                                    ![up.user_id].count = @ + 1]
    /\ uploads' = [uploads EXCEPT ![t] = IdleTask]
    /\ result' = [op |-> "upload_file", raised |-> "", size |-> up.size,
                  path |-> up.full_path]
    /\ UNCHANGED <<now, rlVars, cmVars, taskVars, exceptFm, disk>>

\* delete_file
DeleteFile(user_id, path) ==
    /\ IF path \notin DOMAIN disk[user_id]
       THEN /\ result' = [op |-> "delete_file", value |-> FALSE]
            /\ UNCHANGED <<disk, user_quotas>>
       ELSE LET file_size == disk[user_id][path]
                current_usage == IF user_id \in DOMAIN user_quotas
                                 THEN user_quotas[user_id] ELSE 0
            IN
            /\ user_quotas' = Bind(user_quotas, user_id, Max(0, current_usage - file_size))
            /\ disk' = [disk EXCEPT ![user_id] = Without(@, {path})]
            /\ result' = [op |-> "delete_file", value |-> TRUE]
    /\ UNCHANGED <<now, rlVars, cmVars, taskVars, exceptFm, uploads, accepted>>

\* the directories the manager may find: empty, one large file, two files
InitialDisks ==
    {<< >>,
     Path("old", ".txt", 0) :> 95 * MB,
     Path("old", ".txt", 0) :> 5 * MB @@ Path("a", ".txt", 0) :> MB}
FileStems == {"a", "b"}
FileExtensions == {".txt", ".exe"}
ContentSizes == {MB, 5 * MB, MaxFileSize, MaxFileSize + 1}
FilePaths == {Path(stem, ".txt", n) : stem \in FileStems \cup {"old"}, n \in 0..1}
\* the uploads accepted in a run
MaxUploads == 2

FmInit ==
    /\ now = 0
    /\ result = NoResult
    /\ RLConstructed(DefaultMaxRequests, DefaultWindowSeconds)
    /\ CMConstructed(DefaultMaxHistory, DefaultContextWindow)
    /\ TermConstructed
    /\ WfConstructed
    /\ BotConstructed
    /\ \E files \in [FileUsers -> InitialDisks] :
          /\ disk = files
          /\ accepted = [u \in FileUsers |->
                [before |-> SumSizes(files[u]), bytes |-> 0, count |-> 0]]
    /\ user_quotas = << >>
    /\ uploads = [t \in Tasks |-> IdleTask]

UploadStarted(user_id) ==
    accepted[user_id].count
        + Cardinality({t \in Tasks : uploads[t].pc # "idle" /\ uploads[t].user_id = user_id})

\* an upload_file call, while fewer than MaxUploads were accepted or run
UploadCall(t, user_id, stem, ext, size) ==
    /\ UploadStarted(user_id) < MaxUploads
    /\ UploadFile(t, user_id, stem, ext, size)

\* a delete_file or get_user_usage call made while no upload_file call runs
DeleteCall(user_id, path) == uploads[1].pc = "idle" /\ DeleteFile(user_id, path)
UsageCall(user_id) == uploads[1].pc = "idle" /\ GetUserUsage(user_id)

\* Two tasks upload files of one user concurrently.
UploadNext ==
    \/ \E t \in Tasks, u \in FileUsers, stem \in FileStems, ext \in FileExtensions,
          size \in ContentSizes : UploadCall(t, u, stem, ext, size)
    \/ \E t \in Tasks : UploadWrite(t)
    \/ \E t \in Tasks : UploadReturn(t)
    \/ \E u \in FileUsers : GetUserUsage(u)

SpecUpload == FmInit /\ [][UploadNext]_vars

\* One call at a time: uploads, deletions and usage queries in any order.
FilesNext ==
    \/ \E u \in FileUsers, stem \in FileStems, ext \in FileExtensions, size \in ContentSizes :
          UploadCall(1, u, stem, ext, size)
    \/ UploadWrite(1)
    \/ UploadReturn(1)
    \/ \E u \in FileUsers, path \in FilePaths : DeleteCall(u, path)
    \/ \E u \in FileUsers : UsageCall(u)

SpecFiles == FmInit /\ [][FilesNext]_vars

---------------------------------------------------------------------------
(* OllamaDiscordBot (src/discord_bot.py) and the rate limit check of        *)
(* EnhancedAgentDiscordBot (src/enhanced_agent_discord_bot.py)              *)

\* the window of both check_rate_limit methods (seconds)
BotWindowSeconds == 60

BotUsers == {1, 2}
BotChannels == {1}

\* a turn of a conversation; the content of a question, of the answer to a
\* question and of a system message
BotTurn(role, content) == [role |-> role, content |-> content]
Question(q) == <<"question", q>>
Answer(q) == <<"answer to", q>>
SystemText(n) == <<"system", n>>

\* OllamaDiscordBot.check_rate_limit on the list of a user: the decision and
\* the list it leaves
CheckRateLimit(requests, t, rate_limit) ==
    LET kept == SelectSeq(requests, LAMBDA req_time : t - req_time < BotWindowSeconds * TicksPerSec)
    IN IF Len(kept) >= rate_limit
       THEN [allowed |-> FALSE, requests |-> kept]
       ELSE [allowed |-> TRUE, requests |-> Append(kept, t)]

\* EnhancedAgentDiscordBot.check_rate_limit: the filtered list is stored only
\* when the request is admitted
EnhancedCheckRateLimit(requests, t, rate_limit) ==
    LET kept == SelectSeq(requests, LAMBDA req_time : t - req_time < BotWindowSeconds * TicksPerSec)
    IN IF Len(kept) >= rate_limit
       THEN [allowed |-> FALSE, requests |-> requests]
       ELSE [allowed |-> TRUE, requests |-> Append(kept, t)]

ListOf(d, k) == IF k \in DOMAIN d THEN d[k] ELSE << >>
CountOf(d, k) == IF k \in DOMAIN d THEN d[k] ELSE 0

\* update_conversation: the conversations after the call
UpdateConversation(convs, channel_id, role, content) ==
    LET appended == Append(ListOf(convs, channel_id), BotTurn(role, content))
    IN Bind(convs, channel_id,
            IF Len(appended) > bot_max_history * 2
            THEN PySuffix(appended, bot_max_history)
            ELSE appended)

\* context = self.get_conversation_context(channel_id); context.append(turn):
\* the conversations afterwards; the context is a copy of the stored list
\* (variant: the context is the stored list itself)
ContextAppendAliased(convs, channel_id, turn) ==
    Bind(convs, channel_id, Append(ListOf(convs, channel_id), turn))
ContextAppend(convs, channel_id, turn) ==
    Bind(convs, channel_id, ListOf(convs, channel_id))

\* ask (and chat, which calls it) up to `await self.generate_response(context)`
AskStart(t, user_id, channel_id) ==
    LET check == CheckRateLimit(ListOf(bot_user_requests, user_id), now, bot_rate_limit)
        q == asked.questions + 1
    IN
    /\ asks[t].pc = "idle"
    /\ bot_user_requests' = Bind(bot_user_requests, user_id, check.requests)
    /\ IF ~check.allowed
       THEN /\ result' = [op |-> "ask", outcome |-> "too many requests"]
            /\ UNCHANGED <<bot_conversations, asks, asked>>
       ELSE /\ bot_conversations' =
                  ContextAppend(bot_conversations, channel_id, BotTurn("user", Question(q)))
            /\ asks' = [asks EXCEPT ![t] =
                  [pc |-> "generating", channel_id |-> channel_id, question |-> q,
                   context |-> Append(ListOf(bot_conversations, channel_id),
                                      BotTurn("user", Question(q)))]]
            /\ asked' = [asked EXCEPT !.questions = q]
            /\ result' = NoResult
    /\ UNCHANGED <<now, rlVars, cmVars, taskVars, exceptBot, bot_rate_limit, bot_max_history,
                   enhanced_user_requests>>

\* generate_response returns: a response is stored after its question; an
\* empty response or None stores nothing
AskResume(t, answered) ==
    LET a == asks[t] IN
    /\ a.pc = "generating"
    /\ bot_conversations' =
          IF answered
          THEN UpdateConversation(
                   UpdateConversation(bot_conversations, a.channel_id, "user",
                                      Question(a.question)),
                   a.channel_id, "assistant", Answer(a.question))
          ELSE bot_conversations
    /\ asks' = [asks EXCEPT ![t] = IdleTask]
    /\ result' = [op |-> "ask", question |-> a.question,
                  outcome |-> IF answered THEN "answered" ELSE "failed"]
    /\ UNCHANGED <<now, rlVars, cmVars, taskVars, exceptBot, bot_rate_limit, bot_max_history,
                   bot_user_requests, enhanced_user_requests, asked>>

\* system_message
SystemMessage(channel_id) ==
    LET n == CountOf(asked.systems, channel_id) + 1 IN
    /\ bot_conversations' =
          UpdateConversation(bot_conversations, channel_id, "system", SystemText(n))
    /\ asked' = [asked EXCEPT !.systems = Bind(@, channel_id, n)]
    /\ result' = [op |-> "update_conversation", channel_id |-> channel_id,
                  before |-> ListOf(bot_conversations, channel_id),
                  turn |-> BotTurn("system", SystemText(n))]
    /\ UNCHANGED <<now, rlVars, cmVars, taskVars, exceptBot, bot_rate_limit, bot_max_history,
                   bot_user_requests, enhanced_user_requests, asks>>

\* clear_conversation
BotClearConversation(channel_id) ==
    /\ bot_conversations' = Without(bot_conversations, {channel_id})
    /\ result' = [op |-> "clear"]
    /\ UNCHANGED <<now, rlVars, cmVars, taskVars, exceptBot, bot_rate_limit, bot_max_history,
                   bot_user_requests, enhanced_user_requests, asks, asked>>

\* cleanup_task: old rate limit entries and empty conversations are removed
BotCleanupTask ==
    LET kept == [u \in DOMAIN bot_user_requests |->
                    SelectSeq(bot_user_requests[u],
                              LAMBDA req_time : now - req_time < BotWindowSeconds * TicksPerSec)]
    IN
    /\ bot_user_requests' = Without(kept, {u \in DOMAIN kept : kept[u] = << >>})
    /\ bot_conversations' =
          Without(bot_conversations,
                  {c \in DOMAIN bot_conversations : bot_conversations[c] = << >>})
    /\ result' = [op |-> "cleanup_task"]
    /\ UNCHANGED <<now, rlVars, cmVars, taskVars, exceptBot, bot_rate_limit, bot_max_history,
                   enhanced_user_requests, asks, asked>>

\* the questions and the system messages of a run
MaxAsks == 3
MaxSystems == 1

AskCall(t, user_id, channel_id) ==
    /\ asked.questions < MaxAsks
    /\ AskStart(t, user_id, channel_id)

SystemCall(channel_id) ==
    /\ CountOf(asked.systems, channel_id) < MaxSystems
    /\ SystemMessage(channel_id)

\* Two tasks serve !ask and !chat of two users on one channel, with !system
\* and !clear in between; max_history is 1 (so that the history is trimmed
\* within a few turns) or 10, rate_limit is 2 or 5.
AskInit ==
    /\ now = 0
    /\ result = NoResult
    /\ RLConstructed(DefaultMaxRequests, DefaultWindowSeconds)
    /\ CMConstructed(DefaultMaxHistory, DefaultContextWindow)
    /\ TermConstructed
    /\ WfConstructed
    /\ FmConstructed([u \in FileUsers |-> << >>])
    /\ \E rate_limit \in {2, BotRateLimit}, mh \in {1, BotMaxHistory} :
          BotConfigured(rate_limit, mh)

AskNext ==
    \/ \E t \in Tasks, u \in BotUsers, c \in BotChannels : AskCall(t, u, c)
    \/ \E t \in Tasks, answered \in BOOLEAN : AskResume(t, answered)
    \/ \E c \in BotChannels : SystemCall(c)
    \/ \E c \in BotChannels : BotClearConversation(c)
    \/ BotCleanupTask

SpecAsk == AskInit /\ [][AskNext]_vars

\* update_conversation is called up to MaxTurns times on each of two channels
\* of a bot as constructed (max_history = 10).
MaxTurns == 22
TrimChannels == {1, 2}

TrimCall(channel_id) ==
    /\ CountOf(asked.systems, channel_id) < MaxTurns
    /\ SystemMessage(channel_id)

TrimInit ==
    /\ now = 0
    /\ result = NoResult
    /\ RLConstructed(DefaultMaxRequests, DefaultWindowSeconds)
    /\ CMConstructed(DefaultMaxHistory, DefaultContextWindow)
    /\ ExtConstructed

TrimNext == \E c \in TrimChannels : TrimCall(c)

SpecTrim == TrimInit /\ [][TrimNext]_vars

\* One user's attempts are put to the three limiters at the same instants:
\* a RateLimiter with a window of 60 seconds, and the two bots with the
\* RateLimiter's limit as their rate_limit.
Attempt(user_id) ==
    LET out == IsRateLimitedOutcome(Queue(user_id), now)
        bot == CheckRateLimit(ListOf(bot_user_requests, user_id), now, bot_rate_limit)
        enhanced == EnhancedCheckRateLimit(ListOf(enhanced_user_requests, user_id), now,
                                           bot_rate_limit)
    IN
    /\ user_requests' = Bind(user_requests, user_id, out.queue)
    /\ admitted' = [admitted EXCEPT ![user_id] =
                       IF out.raised \/ out.is_limited THEN @ ELSE Append(@, now)]
    /\ calls_since_reset' = [calls_since_reset EXCEPT ![user_id] =
                                IF @ >= 0 /\ @ + 1 < max_requests THEN @ + 1 ELSE -1]
    /\ bot_user_requests' = Bind(bot_user_requests, user_id, bot.requests)
    /\ enhanced_user_requests' = Bind(enhanced_user_requests, user_id, enhanced.requests)
    /\ result' = [op |-> "attempt", user |-> user_id,
                  rate_limiter |-> ~(out.raised \/ out.is_limited),
                  discord_bot |-> bot.allowed,
                  enhanced_bot |-> enhanced.allowed]
    /\ UNCHANGED <<now, max_requests, window_seconds, cmVars, taskVars, exceptBot,
                   bot_rate_limit, bot_max_history, bot_conversations, asks, asked>>

LimitersInit ==
    /\ now = 0
    /\ result = NoResult
    /\ CMConstructed(DefaultMaxHistory, DefaultContextWindow)
    /\ TermConstructed
    /\ WfConstructed
    /\ FmConstructed([u \in FileUsers |-> << >>])
    /\ \E limit \in 1..MaxReq :
          /\ RLConstructed(limit, BotWindowSeconds)
          /\ BotConfigured(limit, BotMaxHistory)

\* the clock moves by the window, or by a second less or more, up to two
\* windows
LimitersSteps == {BotWindowSeconds - 1, BotWindowSeconds, BotWindowSeconds + 1}
LimitersAdvance(secs) ==
    /\ now + secs * TicksPerSec <= 2 * BotWindowSeconds * TicksPerSec
    /\ now' = now + secs * TicksPerSec
    /\ admitted' = [u \in Users |-> InWindow(admitted[u], now')]
    /\ result' = NoResult
    /\ UNCHANGED <<max_requests, window_seconds, user_requests, calls_since_reset,
                   cmVars, taskVars, extVars>>

LimitersNext ==
    \/ \E u \in ScenarioUsers : Attempt(u)
    \/ \E secs \in LimitersSteps : LimitersAdvance(secs)

SpecLimiters == LimitersInit /\ [][LimitersNext]_vars

---------------------------------------------------------------------------
(* Claims about ConversationManager *)

Min(a, b) == IF a <= b THEN a ELSE b

\* the turns inserted by the add_message calls number lo..hi of a channel, in
\* insertion order, are what `turns` holds
IsInsertedRun(turns, lo, hi) ==
    /\ Len(turns) = hi - lo + 1
    /\ \A i \in 1..Len(turns) : turns[i].seq = lo + i - 1

\* C1: after N add_message calls on a channel (nothing but reads in between),
\* the channel holds, and get_conversation_history(channel) returns, exactly
\* the last min(N, max_history) inserted turns in insertion order; so an
\* add_message on a channel holding max_history turns evicts exactly one turn,
\* the oldest.  n_added[c] is N (negative once the channel was imported).
C1_FifoCap ==
    \A c \in Channels :
        n_added[c] >= 0 =>
            LET n == n_added[c] IN
            /\ IsInsertedRun(Conversation(c), n - Min(n, max_history) + 1, n)
            /\ (/\ result.op = "get_conversation_history"
                /\ result.channel = c
                /\ result.max_messages = None)
               => result.value = conversations[c]

C1_Witness ==
    \E c \in Channels :
        /\ max_history >= 2
        /\ n_added[c] > max_history
        /\ result.op = "get_conversation_history" /\ result.channel = c
        /\ result.max_messages = None
        /\ Len(result.value) = max_history
        /\ result.value[1].seq = n_added[c] - max_history + 1
        /\ result.value[1].timestamp < result.value[max_history].timestamp

\* C2: after any sequence of add_message, import_conversation,
\* clear_conversation, cleanup_old_conversations, get_conversation_history and
\* get_context_for_model calls, every channel holds at most max_history turns.
C2_EveryChannelWithinMaxHistory ==
    \A c \in DOMAIN conversations : Len(conversations[c]) <= max_history

---------------------------------------------------------------------------
(* Claims about RateLimiter *)

IsSuffixOf(s, q) == \E k \in 0..Len(q) : s = SubSeq(q, k + 1, Len(q))

\* the entries of q not older than window_seconds at time t, counted directly
Retained(q, t) == SelectSeq(q, LAMBDA ts : ts >= t - WindowTicks)

\* C3: with max_requests >= 1, after every is_rate_limited(user) call the user's
\* queue holds at most max_requests timestamps, and a rejecting call appends
\* nothing (the queue it leaves is a suffix of the queue it found).
C3_QueueBoundedAndRejectDoesNotAppend ==
    [][\A u \in Users :
        (max_requests >= 1 /\ IsRateLimited(u)) =>
            /\ Len(user_requests'[u]) <= max_requests
            /\ result'.is_limited => IsSuffixOf(user_requests'[u], Queue(u))
      ]_vars

C3_Witness ==
    /\ max_requests >= 1
    /\ result.op = "is_rate_limited"
    /\ result.is_limited
    /\ Len(user_requests[result.user]) = max_requests

\* C4: is_rate_limited admits an attempt exactly when fewer than max_requests of
\* the user's timestamps are not older than the window, and then appends the
\* attempt and returns retry 0; with max_requests = 3 and window_seconds = 60,
\* attempts at t = 0 are admitted while fewer than three are recorded, a fourth
\* at t = 0 is rejected with retry 60, and a fourth at t = 61 is admitted.
C4_AdmitsIffBelowLimit ==
    [][\A u \in Users :
        IsRateLimited(u) =>
            LET kept == Retained(Queue(u), now) IN
            /\ ~result'.raised =>
                  /\ ~result'.is_limited <=> Len(kept) < max_requests
                  /\ ~result'.is_limited =>
                        /\ result'.retry = 0
                        /\ user_requests'[u] = Append(kept, now)
            /\ (max_requests = 3 /\ window_seconds = 60) =>
                  /\ (now = 0 /\ Len(Queue(u)) < 3) =>
                        (~result'.raised /\ ~result'.is_limited)
                  /\ (now = 0 /\ Queue(u) = <<0, 0, 0>>) =>
                        (result'.is_limited /\ result'.retry = 60)
                  /\ (now = 61 * TicksPerSec /\ Queue(u) = <<0, 0, 0>>) =>
                        (~result'.raised /\ ~result'.is_limited
                         /\ user_requests'[u] = <<now>>)
      ]_vars

C4_Witness ==
    /\ max_requests = 3 /\ window_seconds = 60
    /\ now = 0
    /\ result.op = "is_rate_limited"
    /\ result.is_limited /\ result.retry = 60
    /\ user_requests[result.user] = <<0, 0, 0>>

\* C5: for one user, at non-decreasing clock times and with no reset_user in
\* between, the attempts admitted within any interval of length window_seconds
\* number at most max_requests.  `admitted` holds the user's admitted attempts
\* of the closed interval [now - window, now] since the last reset_user; every
\* interval [a, a + window] is contained in the one ending at the last instant
\* the clock took within it.
C5_AtMostMaxRequestsPerWindow ==
    \A u \in Users : Len(admitted[u]) <= max_requests

C5_Witness ==
    \E u \in Users :
        /\ max_requests = 2
        /\ Len(admitted[u]) = 2
        /\ admitted[u][1] < admitted[u][2]
        /\ result.op = "is_rate_limited" /\ result.user = u
        /\ result.is_limited

\* C6: a timestamp exactly window_seconds old at the time of a check is pruned,
\* so after is_rate_limited or get_user_stats at time `now` the user's queue
\* holds no timestamp equal to now - window_seconds.
C6_ExactlyWindowOldIsPruned ==
    (/\ window_seconds >= 1
     /\ result.op \in {"is_rate_limited", "get_user_stats"})
    => \A i \in 1..Len(user_requests[result.user]) :
          user_requests[result.user][i] # now - WindowTicks

\* C7: when is_rate_limited(user) rejects at time t with seconds_until_reset = r,
\* a further is_rate_limited(user) at time t + r, with no attempt of that user
\* in between, is admitted.  (Stated for window_seconds >= 1.)
C7_AdmittedAfterReportedRetry ==
    (window_seconds >= 1 /\ result.op = "is_rate_limited" /\ result.is_limited)
    => LET again == IsRateLimitedOutcome(user_requests[result.user],
                                         now + result.retry * TicksPerSec)
       IN ~again.raised /\ ~again.is_limited

\* C8: get_user_stats(user) never records an attempt: at every later time the
\* outcome of is_rate_limited(user) (raise, admit or reject, retry value, and
\* the queue it leaves) is what it would have been without the call.
C8_StatsNeverRecords ==
    [][\A u \in Users :
        GetUserStats(u) =>
            /\ Len(user_requests'[u]) <= Len(Queue(u))
            /\ \A t \in now..(MaxClock + WindowTicks + TicksPerSec) :
                  IsRateLimitedOutcome(user_requests'[u], t)
                      = IsRateLimitedOutcome(Queue(u), t)
      ]_vars

C8_Witness ==
    /\ max_requests >= 1
    /\ result.op = "get_user_stats"
    /\ result.used = max_requests
    /\ result.remaining = 0
    /\ now > 0

\* C9: for max_requests >= 0 and window_seconds >= 0, is_rate_limited and
\* get_user_stats return a result and never raise.
C9_NeverRaises ==
    (/\ max_requests >= 0 /\ window_seconds >= 0
     /\ result.op \in {"is_rate_limited", "get_user_stats"})
    => ~("raised" \in DOMAIN result /\ result.raised)

\* C10: reset_user(u) empties u's queue, leaves every other user's queue and the
\* set of known users unchanged (a no-op for a user never seen), and each of the
\* next max_requests is_rate_limited(u) calls is admitted.
C10_ResetUserClearsOnlyThatUser ==
    [][\A u \in Users :
        /\ ResetUser(u) =>
              /\ DOMAIN user_requests' = DOMAIN user_requests
              /\ Queue(u)' = << >>
              /\ \A v \in DOMAIN user_requests \ {u} :
                    user_requests'[v] = user_requests[v]
        /\ (IsRateLimited(u) /\ calls_since_reset[u] >= 0) =>
              (~result'.raised /\ ~result'.is_limited)
      ]_vars

C10_Witness ==
    \E u \in Users, v \in Users :
        /\ u # v
        /\ max_requests = 2
        /\ result.op = "is_rate_limited" /\ result.user = u
        /\ ~result.is_limited
        /\ calls_since_reset[u] = 1
        /\ user_requests[u] = <<now>>
        /\ v \in DOMAIN user_requests /\ Len(user_requests[v]) = 2

\* What a reader of context sees of a turn, and of a run of turns
RoleContent(turn) == [role |-> turn.role, content |-> turn.content]
RoleContents(turns) == [i \in 1..Len(turns) |-> RoleContent(turns[i])]

\* floor(len(content)/4), summed over turns
RECURSIVE EstimateSum(_)
EstimateSum(turns) ==
    IF turns = << >> THEN 0
    ELSE Len(Head(turns).content) \div 4 + EstimateSum(Tail(turns))

\* the last k of turns (k >= 0)
LastTurns(turns, k) == SubSeq(turns, Len(turns) - k + 1, Len(turns))

\* the longest suffix of turns whose summed estimate is within budget, or the
\* newest turn alone when even that one is over budget
LongestFittingSuffix(turns, budget) ==
    LET fits == {k \in 0..Len(turns) : EstimateSum(LastTurns(turns, k)) <= budget}
        longest == CHOOSE k \in fits : \A j \in fits : j <= k
    IN IF turns # << >> /\ longest = 0 THEN LastTurns(turns, 1)
       ELSE LastTurns(turns, longest)

\* the call get_context_for_model(c, max_tokens) has just returned
ContextReturned == result.op = "get_context_for_model"
ContextHistory == Conversation(result.channel)

\* C11: for every history and max_tokens >= 1, get_context_for_model returns
\* as {role, content} items, oldest first, the longest suffix of the turns
\* whose summed floor(len(content)/4) is within max_tokens, or the newest turn
\* alone when that one exceeds max_tokens; four turns of 50 with max_tokens
\* 120 give the 2 most recent turns.
C11_LongestFittingSuffix ==
    (ContextReturned /\ result.max_tokens # None /\ result.max_tokens[1] >= 1) =>
        /\ result.value =
              RoleContents(LongestFittingSuffix(ContextHistory, result.max_tokens[1]))
        /\ ( /\ Len(ContextHistory) = 4
             /\ \A i \in 1..4 : Len(ContextHistory[i].content) \div 4 = 50
             /\ result.max_tokens[1] = 120 )
           => result.value = RoleContents(LastTurns(ContextHistory, 2))

C11_Witness ==
    /\ ContextReturned
    /\ result.max_tokens = Some(120)
    /\ Len(ContextHistory) = 4
    /\ \A i \in 1..4 : Len(ContextHistory[i].content) = 200
    /\ Len(result.value) = 2

\* C12: with at least one turn stored, get_context_for_model returns a
\* non-empty sequence ending in the newest stored turn, whatever max_tokens
\* is; with no turns it returns the empty sequence.
C12_NonEmptyEndsInNewest ==
    ContextReturned =>
        IF ContextHistory = << >> THEN result.value = << >>
        ELSE /\ result.value # << >>
             /\ result.value[Len(result.value)] =
                   RoleContent(ContextHistory[Len(ContextHistory)])

C12_Witness ==
    /\ ContextReturned
    /\ result.max_tokens = Some(1)
    /\ Len(ContextHistory) = 1
    /\ Len(ContextHistory[1].content) \div 4 > 1
    /\ Len(result.value) = 1

\* C13: get_context_for_model never changes the store: the conversations map
\* (its keys and every channel's turns) and the last_activity map are the
\* same before and after the call, for channels with turns and for channels
\* never seen.
C13_ContextLeavesStoreAlone ==
    [][ (\E c \in CtxChannels, max_tokens \in CtxBudgets : GetContextForModel(c, max_tokens))
           => /\ conversations' = conversations
              /\ last_activity' = last_activity ]_vars

\* C14: a caller-supplied max_tokens >= 0, 0 included, is the budget used;
\* context_window is the budget only when no max_tokens is supplied.
C14_SuppliedBudgetIsUsed ==
    ContextReturned =>
        result.value =
            RoleContents(LongestFittingSuffix(ContextHistory,
                IF result.max_tokens = None THEN context_window
                ELSE result.max_tokens[1]))

\* the call get_conversation_history(c, max_messages) has just returned
HistoryReturned == result.op = "get_conversation_history"

\* C15: for every limit >= 0 and a channel of n turns,
\* get_conversation_history returns the last min(limit, n) turns, oldest
\* first; with no limit it returns all n turns.
C15_LastMinLimitTurns ==
    HistoryReturned =>
        LET turns == Conversation(result.channel) IN
        result.value =
            IF result.max_messages = None THEN turns
            ELSE LastTurns(turns, Min(result.max_messages[1], Len(turns)))

\* A turn has been inserted for channel c, by add_message or by
\* import_conversation, since c was last cleared or swept (max_history >= 1:
\* an inserted turn stays until then)
Inserted(c) ==
    \/ n_added[c] > 0
    \/ n_added[c] = -1 /\ Conversation(c) # << >>

\* C16: a conversation exists for a channel (get_stats counts it,
\* export_conversation returns its messages and not the error) exactly when a
\* turn has been inserted for it since it was last cleared or swept; reads
\* and clears of an unseen channel create no conversation.
C16_ExistsIffInserted ==
    /\ result.op = "get_stats" =>
          result.total_conversations = Cardinality({c \in Channels : Inserted(c)})
    /\ result.op = "export_conversation" =>
          (result.error <=> ~Inserted(result.channel))

\* C17: after clear_conversation(k), once or twice, get_conversation_history(k)
\* is empty; clear_conversation on a channel never seen raises nothing; a
\* clear changes no other channel's turns.
C17_ClearIsIdempotent ==
    /\ [](\A k \in Channels :
             /\ n_added[k] = 0 => Conversation(k) = << >>
             /\ (HistoryReturned /\ result.channel = k /\ n_added[k] = 0)
                   => result.value = << >>)
    /\ [][ \A k \in Channels : ClearConversation(k) =>
              /\ Conversation(k)' = << >>
              /\ result' = NoResult
              /\ \A d \in Channels \ {k} :
                    /\ (d \in DOMAIN conversations') = (d \in DOMAIN conversations)
                    /\ Conversation(d)' = Conversation(d) ]_vars

\* a channel written and then cleared reads as empty while the other channel
\* still holds its turns
C17_Witness ==
    \E k \in Channels :
       /\ k \in DOMAIN last_activity
       /\ n_added[k] = 0
       /\ HistoryReturned /\ result.channel = k /\ result.value = << >>
       /\ \E d \in Channels \ {k} : Conversation(d) # << >>

\* The age of channel c's last activity, and the channels a sweep with
\* max_age_hours finds older than that
Age(c) == now - last_activity[c]
OlderThan(max_age_hours) ==
    {c \in DOMAIN last_activity : Age(c) > max_age_hours * HourTicks}

\* a sweep removed exactly the channels of gone, turns and last_activity
\* together, and left the others as they were
Removed(gone) ==
    /\ DOMAIN conversations' = DOMAIN conversations \ gone
    /\ DOMAIN last_activity' = DOMAIN last_activity \ gone
    /\ \A c \in DOMAIN conversations' : conversations'[c] = conversations[c]
    /\ \A c \in DOMAIN last_activity' : last_activity'[c] = last_activity[c]

\* C18 as stated: cleanup_old_conversations(max_age) removes every
\* conversation whose last_activity is older than max_age, leaves the younger
\* ones unchanged, and returns the number of conversations it removed.
C18_SweepReturnsCount ==
    [][ \A max_age_hours \in SweepAges : CleanupOldConversations(max_age_hours) =>
           /\ Removed(OlderThan(max_age_hours))
           /\ result'.value = Some(Cardinality(OlderThan(max_age_hours))) ]_vars

\* C18 amended: cleanup_old_conversations(max_age) removes every conversation
\* whose last_activity is older than max_age, turns and last_activity
\* together, leaves every other conversation unchanged, and returns nothing.
C18_SweepRemovesOlder ==
    [][ \A max_age_hours \in SweepAges : CleanupOldConversations(max_age_hours) =>
           /\ Removed(OlderThan(max_age_hours))
           /\ result'.value = None ]_vars

\* a sweep has removed one channel and left the other, younger one
C18_Witness ==
    /\ now = HourTicks + TicksPerSec
    /\ result.op = "cleanup_old_conversations" /\ result.logged = 1
    /\ \E c \in Channels, d \in Channels :
          /\ c \notin DOMAIN conversations /\ c \notin DOMAIN last_activity
          /\ d \in DOMAIN last_activity /\ Age(d) = HourTicks
          /\ conversations[d] # << >>

\* C19 as stated: at the boundary a sweep removes a conversation whose
\* last_activity is exactly now - max_age and retains one whose last_activity
\* is one second younger (stated for a max_age of an hour or more).
C19_BoundaryIsRemoved ==
    [][ \A max_age_hours \in SweepAges \ {0} : CleanupOldConversations(max_age_hours) =>
           \A c \in DOMAIN last_activity :
              /\ Age(c) = max_age_hours * HourTicks => c \notin DOMAIN last_activity'
              /\ Age(c) = max_age_hours * HourTicks - TicksPerSec
                    => c \in DOMAIN last_activity' ]_vars

\* C19 amended: at the boundary a sweep retains a conversation whose
\* last_activity is exactly now - max_age, and one whose last_activity is one
\* second younger; it removes one whose last_activity is one second older.
C19_BoundaryIsRetained ==
    [][ \A max_age_hours \in SweepAges : CleanupOldConversations(max_age_hours) =>
           \A c \in DOMAIN last_activity :
              /\ Age(c) = max_age_hours * HourTicks =>
                    /\ c \in DOMAIN last_activity' /\ c \in DOMAIN conversations'
                    /\ conversations'[c] = conversations[c]
              /\ Age(c) = max_age_hours * HourTicks - TicksPerSec =>
                    /\ c \in DOMAIN last_activity' /\ c \in DOMAIN conversations'
                    /\ conversations'[c] = conversations[c]
              /\ Age(c) = max_age_hours * HourTicks + TicksPerSec =>
                    /\ c \notin DOMAIN last_activity' /\ c \notin DOMAIN conversations' ]_vars

\* an hour after the start a sweep with max_age_hours = 1 has run, and the
\* channel written at the start and the one written a second later both hold
\* their turns
C19_Witness ==
    /\ now = HourTicks
    /\ result.op = "cleanup_old_conversations" /\ result.logged = 0
    /\ \E c \in Channels, d \in Channels :
          /\ c \in DOMAIN last_activity /\ Age(c) = HourTicks
          /\ d \in DOMAIN last_activity /\ Age(d) = HourTicks - TicksPerSec
          /\ conversations[c] # << >> /\ conversations[d] # << >>

\* The store of the ConversationManager
Store == [conversations |-> conversations, last_activity |-> last_activity]

\* C20: whatever the interleaving of add_message, clear_conversation,
\* import_conversation, cleanup_old_conversations, get_conversation_history
\* and get_context_for_model coroutines, the store and the results are those
\* of running the calls whole, one at a time, in the order they took the
\* lock; two concurrent add_message calls on a channel both appear in its
\* history, in that order.
C20_AsIfOneAtATime ==
    /\ lock = Free => Store = serial
    /\ \A t \in Tasks :
          tasks[t].pc = "done" =>
             IF tasks[t].raised
             THEN tasks[t].call.name = "import_conversation"
                  /\ tasks[t].call.data.kind = "invalid"
             ELSE tasks[t].ret = tasks[t].expected

\* two add_message calls on channel 1 ran concurrently and have both
\* returned; the history ends with their two turns
C20_Witness ==
    \E t \in Tasks, o \in Tasks :
       /\ t # o
       /\ tasks[t].pc = "done" /\ tasks[o].pc = "done"
       /\ tasks[t].call.name = "add_message" /\ tasks[o].call.name = "add_message"
       /\ tasks[t].call.content # tasks[o].call.content
       /\ tasks[o].contended
       /\ Len(Conversation(1)) >= 2
       /\ LET turns == Conversation(1) IN
          /\ turns[Len(turns) - 1].content = tasks[t].call.content
          /\ turns[Len(turns)].content = tasks[o].call.content

---------------------------------------------------------------------------
(* Claims about CleanTerminal and the terminal handlers *)

\* C21: is_command_allowed rejects every command that contains one of the
\* sequences |, >, <, &&, ||, ;, ` or $( whatever its first token is, so
\* execute_command never hands such a command to the shell; a command is
\* allowed only when its first token is in allowed_commands and not in
\* forbidden_commands.
C21_NoMetaReachesShell ==
    result.op = "execute_command" =>
        /\ ContainsMeta(result.command) => (~result.allowed /\ result.shell = None)
        /\ result.allowed =>
              /\ result.command # << >>
              /\ result.command[1] \in AllowedCommands \ ForbiddenCommands

\* C25: is_expired() is true exactly when the time since last_used exceeds
\* TERMINAL_TIMEOUT seconds, durations of a day or longer included, so that
\* cleanup_terminals removes every session idle for longer than the timeout
\* and no other.
C25_ExpiredExactlyWhenIdleTooLong ==
    result.op = "cleanup_terminals" =>
        \A sid \in DOMAIN result.idle :
            /\ sid \in result.expired <=>
                  result.idle[sid] > DefaultTerminalTimeout * TicksPerSec
            /\ sid \in DOMAIN active_terminals <=> sid \notin result.expired

\* C28: whatever the interleaving of /terminal, /term and cleanup_terminals,
\* active_terminals holds at most one session for a (user_id, channel_id).
C28_OneSessionPerPair ==
    \A u \in TermUsers, c \in TermChannels : Cardinality(SessionsOf(u, c)) <= 1

\* two /terminal handlers of one pair were deferred together, the first
\* created the session and the second found it
C28_Witness ==
    /\ result.op = "slash_terminal"
    /\ result.outcome = "existing"
    /\ result.contended
    /\ \E u \in TermUsers, c \in TermChannels : SessionsOf(u, c) = {result.session}

---------------------------------------------------------------------------
(* Claims about AdvancedAgentWorkflows *)

\* the names of the steps of a list, and the place of a name in an order
StepNameSet(steps) == {StepName(steps[i]) : i \in DOMAIN steps}
Place(name, order) == CHOOSE i \in DOMAIN order : order[i] = name

\* a step of the list depends on the name d: the pairs <<name, d>>, and what
\* follows from them in up to k more steps
DependsOn(steps) ==
    {<<StepName(steps[i]), steps[i].depends_on[j]>> :
        <<i, j>> \in {p \in (DOMAIN steps) \X (1..2) : p[2] <= Len(steps[p[1]].depends_on)}}
RECURSIVE Closure(_, _)
Closure(R, k) ==
    IF k = 0 THEN R
    ELSE Closure(R \cup {<<p[1], q[2]>> : <<p, q>> \in {pq \in R \X R : pq[1][2] = pq[2][1]}},
                 k - 1)
DepsKnown(steps) == \A p \in DependsOn(steps) : p[2] \in StepNameSet(steps)
Acyclic(steps) == \A p \in Closure(DependsOn(steps), Len(steps)) : p[1] # p[2]

\* C23: _build_execution_order terminates for every list of steps (each round
\* of its loop takes at least one name out of remaining), returns every step
\* name exactly once, and places each step after all the steps it depends on
\* when the dependencies name steps of the list and are acyclic.
C23_OrderIsTopological ==
    sorting.pc # "none" =>
        /\ sorting.rounds + Len(sorting.remaining) <= Cardinality(StepNameSet(sorting.steps))
        /\ sorting.pc = "returned" =>
              /\ {sorting.order[i] : i \in DOMAIN sorting.order} = StepNameSet(sorting.steps)
              /\ Len(sorting.order) = Cardinality(StepNameSet(sorting.steps))
              /\ (DepsKnown(sorting.steps) /\ Acyclic(sorting.steps)) =>
                    \A p \in DependsOn(sorting.steps) :
                        Place(p[2], sorting.order) < Place(p[1], sorting.order)

\* C22: a workflow of a built-in template whose agent calls all succeed is
\* never in status 'error' (it does not run into the dependency timeout), and
\* when its task ends it is 'completed' with every step recorded as completed.
C22_WorkflowCompletes ==
    \A w \in DOMAIN active_workflows :
        LET workflow == active_workflows[w]
            names == StepNameSet(WorkflowTemplates[workflow.type])
        IN
        (\A name \in DOMAIN workflow.steps : workflow.steps[name] # "failed") =>
            /\ workflow.status # "error"
            /\ executions[w].pc = "done" =>
                  /\ workflow.status = "completed"
                  /\ \A name \in names : DepCompleted(workflow, name)

---------------------------------------------------------------------------
(* Claims about SecureFileManager *)

NoUploadOf(user_id) ==
    \A t \in Tasks : uploads[t].pc = "idle" \/ uploads[t].user_id # user_id

\* C24: whatever the interleaving of concurrent upload_file calls of a user,
\* the content accepted for the user never exceeds max_user_quota, and once
\* the calls have finished user_quotas[user] is the usage before the calls
\* plus the sizes of the accepted uploads.
C24_QuotaCountsEveryUpload ==
    \A u \in FileUsers :
        /\ accepted[u].bytes <= MaxUserQuota
        /\ (NoUploadOf(u) /\ u \in DOMAIN user_quotas) =>
              user_quotas[u] = accepted[u].before + accepted[u].bytes

\* C29: get_user_usage(user) is the total size of the files stored for the
\* user, from any initial directory and after any sequence of upload_file
\* and delete_file calls.
C29_UsageIsDiskTotal ==
    result.op = "get_user_usage" => result.value = DiskUsage(result.user_id)

---------------------------------------------------------------------------
(* Claims about the Discord bots *)

\* C30: whatever the interleaving of the ask, chat, system and clear handlers
\* of a channel, every user turn of the stored history is immediately
\* followed by the assistant turn generated for that question.
C30_AnswerFollowsQuestion ==
    \A c \in DOMAIN bot_conversations :
        LET conv == bot_conversations[c] IN
        \A i \in DOMAIN conv :
            conv[i].role = "user" =>
                /\ i < Len(conv)
                /\ conv[i + 1] = BotTurn("assistant", Answer(conv[i].content[2]))

\* the later of two asks that were suspended together has stored its turns
\* behind a system message that arrived meanwhile, and an earlier pair is
\* still in the history
C30_Witness ==
    /\ result.op = "ask" /\ result.outcome = "answered"
    /\ \E c \in DOMAIN bot_conversations :
          LET conv == bot_conversations[c] IN
          \E i, j, k \in DOMAIN conv :
              /\ i < j /\ j < k
              /\ conv[i].role = "user"
              /\ conv[j].role = "system"
              /\ conv[k].role = "user"
              /\ conv[k].content[2] < conv[i].content[2]

C27_SameDecision ==
    result.op = "attempt" =>
        /\ result.rate_limiter = result.discord_bot
        /\ result.discord_bot = result.enhanced_bot

====
